---- MODULE Spec2Model ----
(***************************************************************************)
(* TOC-guided structural alignment of build_book.py.                       *)
(*                                                                         *)
(* A text is a sequence of one-character strings.  Python's None is the    *)
(* value None below; numbers parsed from a text are never negative.        *)
(***************************************************************************)
EXTENDS Integers, Sequences, FiniteSets, TLC

VARIABLES
    body,                \* doc.element.body: the document's elements, in order
    exceptions,          \* the exception table: wrong numbering -> correct numbering
    expected_sequence,   \* the expected sequence (read-only during the parse)
    toc_end_index,       \* find_toc_end(doc)
    pos,                 \* index in body of the next element the loop takes
    pc,                  \* "toc" | "run" | "done" | "error" (an exception left the function)
    expected_index,      \* the alignment cursor
    found_count,
    chapters,            \* chapter -> (section -> set of subsection numbers)
    current_chapter,
    current_section,
    current_subsection,
    chapter_elements,    \* chapter -> list of elements
    section_elements,    \* <<chapter, section>> -> list of elements
    subsection_elements, \* <<chapter, section, subsection>> -> list of elements
    last,                \* what the loop did with the element it took last
    earlier,             \* the results of the calls made before, on the same arguments
    scan_toc_entries,    \* extract_toc_from_document: toc_entries, so far
    scan_in_toc,         \* its in_toc: a line with leader dots was seen
    scan_consecutive_non_toc, \* its consecutive_non_toc
    scan_para,           \* the paragraph that its loop takes next (from 1)
    split,               \* split_into_sections: its arguments and locals
    written              \* build_book_json: the section files written, in order

vars == <<body, exceptions, expected_sequence, toc_end_index, pos, pc,
          expected_index, found_count, chapters, current_chapter,
          current_section, current_subsection, chapter_elements,
          section_elements, subsection_elements, last, earlier,
          scan_toc_entries, scan_in_toc, scan_consecutive_non_toc, scan_para,
          split, written>>

\* the locals of extract_toc_from_document
scan == <<scan_toc_entries, scan_in_toc, scan_consecutive_non_toc, scan_para>>

None == -1

(***************************************************************************)
(* Characters and strings.  A text is a sequence of characters; a          *)
(* character of Latin-1 is the string of that character, and a character   *)
(* that a string of this notation cannot hold is the string of its code    *)
(* point, as in "U+201C".  Of the characters beyond Latin-1 the model has   *)
(* those the source names, the white space, and the Kelvin sign.           *)
(***************************************************************************)
DigitChars == <<"0", "1", "2", "3", "4", "5", "6", "7", "8", "9">>

\* [A-Z]
AsciiUpperChars ==
    <<"A", "B", "C", "D", "E", "F", "G", "H", "I", "J", "K", "L", "M", "N",
      "O", "P", "Q", "R", "S", "T", "U", "V", "W", "X", "Y", "Z">>

\* the capital letters of Latin-1 beyond A-Z
Latin1UpperChars ==
    <<"À", "Á", "Â", "Ã", "Ä", "Å", "Æ", "Ç", "È", "É", "Ê", "Ë", "Ì", "Í",
      "Î", "Ï", "Ð", "Ñ", "Ò", "Ó", "Ô", "Õ", "Ö", "Ø", "Ù", "Ú", "Û", "Ü",
      "Ý", "Þ">>

\* the Kelvin sign: a capital beyond Latin-1 whose lower() is "k", so that
\* re.IGNORECASE lets it stand for the k of "kg" and "week"
KelvinSign == "U+212A"

\* the characters c with c.isupper()
UpperChars == AsciiUpperChars \o Latin1UpperChars \o <<KelvinSign>>

\* c.lower() of the characters of UpperChars, in their order
LowerChars ==
    <<"a", "b", "c", "d", "e", "f", "g", "h", "i", "j", "k", "l", "m", "n",
      "o", "p", "q", "r", "s", "t", "u", "v", "w", "x", "y", "z",
      "à", "á", "â", "ã", "ä", "å", "æ", "ç", "è", "é", "ê", "ë", "ì", "í",
      "î", "ï", "ð", "ñ", "ò", "ó", "ô", "õ", "ö", "ø", "ù", "ú", "û", "ü",
      "ý", "þ", "k">>

\* the small letters that are no c.lower() of a capital of Latin-1
UnpairedLowers == {"ß", "µ", "ÿ"}

\* \w matches them, and they are no digits of \d, no letters with a case
\* and not "_": the ordinal indicators, the superscript digits, the fractions
OtherWordChars == {"ª", "º", "²", "³", "¹", "¼", "½", "¾"}

\* The characters c with c.isspace(), which are the characters \s matches:
\* tab, line feed, vertical tab, form feed, carriage return, U+001C-001F,
\* the space, U+0085, the no-break space, and the spaces beyond Latin-1.
SpaceChars ==
    {"\t", "\n", "U+000B", "\f", "\r", "U+001C", "U+001D", "U+001E", "U+001F",
     " ", "U+0085", " ", "U+1680", "U+2000", "U+2001", "U+2002", "U+2003",
     "U+2004", "U+2005", "U+2006", "U+2007", "U+2008", "U+2009", "U+200A",
     "U+2028", "U+2029", "U+202F", "U+205F", "U+3000"}

Range(f) == {f[x] : x \in DOMAIN f}

Max(S) == CHOOSE x \in S : \A y \in S : y <= x

Min(S) == CHOOSE x \in S : \A y \in S : x <= y

\* F at the value of e: a local variable that is assigned once and read often
With(e, F(_)) == CHOOSE y \in {F(v) : v \in {e}} : TRUE

Digits == Range(DigitChars)

AsciiUppers == Range(AsciiUpperChars)

Uppers == Range(UpperChars)

Lowers == Range(LowerChars) \cup UnpairedLowers

\* \d
IsDigit(c) == c \in Digits

\* [A-Z]
IsAsciiUpper(c) == c \in AsciiUppers

\* c.isupper()
IsUpper(c) == c \in Uppers

\* c.lower() == c != c.upper()
IsLower(c) == c \in Lowers

\* \s, and what str.strip() takes
IsSpace(c) == c \in SpaceChars

\* \w of the re module
IsWord(c) == IsDigit(c) \/ IsUpper(c) \/ IsLower(c) \/ c = "_" \/ c \in OtherWordChars

\* "." of the re module without DOTALL
IsNotNewline(c) == c # "\n"

DigitValue == [c \in Digits |-> (CHOOSE i \in DOMAIN DigitChars : DigitChars[i] = c) - 1]

DigitVal(c) == DigitValue[c]

LowerOf == [c \in Uppers |-> LowerChars[CHOOSE i \in DOMAIN UpperChars : UpperChars[i] = c]]

ToLower(c) == IF IsUpper(c) THEN LowerOf[c] ELSE c

\* str.lower()
Lowercase(t) == [i \in 1..Len(t) |-> ToLower(t[i])]

\* t[i:] with i counted from 1
From(t, i) == SubSeq(t, i, Len(t))

\* the length of the longest run of digits that starts at t[i]
RECURSIVE DigitRun(_, _)
DigitRun(t, i) ==
    IF i <= Len(t) /\ IsDigit(t[i]) THEN 1 + DigitRun(t, i + 1) ELSE 0

\* the length of the longest run of white space that starts at t[i]
RECURSIVE SpaceRun(_, _)
SpaceRun(t, i) ==
    IF i <= Len(t) /\ IsSpace(t[i]) THEN 1 + SpaceRun(t, i + 1) ELSE 0

\* the length of the longest run of white space that ends at t[i]
RECURSIVE SpaceRunBack(_, _)
SpaceRunBack(t, i) ==
    IF i >= 1 /\ IsSpace(t[i]) THEN 1 + SpaceRunBack(t, i - 1) ELSE 0

\* int() of the n digits that start at t[i]
RECURSIVE ToInt(_, _, _)
ToInt(t, i, n) ==
    IF n = 0 THEN 0 ELSE ToInt(t, i, n - 1) * 10 + DigitVal(t[i + n - 1])

\* str(n) for n >= 0, as the f-strings format it
RECURSIVE FormatInt(_)
FormatInt(n) ==
    IF n < 10 THEN <<DigitChars[n + 1]>>
    ELSE FormatInt(n \div 10) \o <<DigitChars[(n % 10) + 1]>>

\* str.strip()
Strip(t) ==
    LET lead == SpaceRun(t, 1)
    IN  IF lead = Len(t) THEN <<>>
        ELSE SubSeq(t, lead + 1, Len(t) - SpaceRunBack(t, Len(t)))

\* re.sub(r"\s+", " ", t): of each run of white space the first character
\* stays, as a space
CollapseSpaces(t) ==
    LET marked == [i \in 1..Len(t) |->
                      IF ~IsSpace(t[i]) THEN t[i]
                      ELSE IF i > 1 /\ IsSpace(t[i - 1]) THEN "" ELSE " "]
    IN  SelectSeq(marked, LAMBDA c : c # "")

\* re's ".*$" at t[i]: "." takes no line feed, and "$" holds at the end of
\* the text and before a line feed that ends it
ToLineEnd(t, i) == \A j \in i..Len(t) : t[j] = "\n" => j = Len(t)

\* re's ".+" or ".*" at t[i], taken as a group: the characters up to the next
\* line feed
UpToNewline(t, i) ==
    LET feeds == {j \in i..Len(t) : t[j] = "\n"}
    IN  SubSeq(t, i, IF feeds = {} THEN Len(t) ELSE Min(feeds) - 1)

\* re's "\s+(.+)" at t[i]: where the group starts, 0 without a match.  The
\* white space is taken greedily and given back until a character that is
\* no line feed follows it.
GroupAfterSpace(t, i) ==
    LET starts == {k \in (i + 1)..(i + SpaceRun(t, i)) :
                       k <= Len(t) /\ IsNotNewline(t[k])}
    IN  IF starts = {} THEN 0 ELSE Max(starts)

\* sorted(S), for numbers
RECURSIVE Sorted(_)
Sorted(S) ==
    IF S = {} THEN <<>>
    ELSE LET least == CHOOSE x \in S : \A y \in S : x <= y
         IN  <<least>> \o Sorted(S \ {least})

\* the lists seqs[i], seqs[i + 1], ... appended one after the other
RECURSIVE Extended(_, _)
Extended(seqs, i) ==
    IF i > Len(seqs) THEN <<>> ELSE seqs[i] \o Extended(seqs, i + 1)

\* a in b, for strings
Contains(a, b) ==
    \E i \in 0..(Len(b) - Len(a)) : SubSeq(b, i + 1, i + Len(a)) = a

\* text.startswith(p)
StartsWith(t, p) == Len(t) >= Len(p) /\ SubSeq(t, 1, Len(p)) = p

\* str.split(sep) for a one-character separator
RECURSIVE Split(_, _)
Split(t, sep) ==
    LET hits == {i \in 1..Len(t) : t[i] = sep}
    IN  IF hits = {} THEN <<t>>
        ELSE <<SubSeq(t, 1, Min(hits) - 1)>> \o Split(From(t, Min(hits) + 1), sep)

(***************************************************************************)
(* normalize_for_comparison and the numbering prefix the title tests strip *)
(***************************************************************************)
\* re.sub(r"\b[<letters>](\d)", r"<repl>\1", t)
OcrWordStart(t, letters, repl) ==
    [i \in 1..Len(t) |->
        IF /\ t[i] \in letters
           /\ i < Len(t) /\ IsDigit(t[i + 1])
           /\ (i = 1 \/ ~IsWord(t[i - 1]))
        THEN repl ELSE t[i]]

normalize_for_comparison(text) ==
    IF text = <<>> THEN <<>>
    ELSE Strip(CollapseSpaces(
             OcrWordStart(OcrWordStart(Lowercase(text), {"I", "l"}, "1"),
                          {"O"}, "0")))

\* The match of \d+\.\d+(?:\.\d+)? at t[i]: n is the number of components
\* (0: no match), end the index of its last character, end2 that of the
\* second component.
NumberingAt(t, i) ==
    LET dot(j) == j <= Len(t) /\ t[j] = "."
        none   == [n |-> 0, end |-> i - 1, end2 |-> i - 1,
                   c |-> None, s |-> None, k |-> None]
    IN  With(DigitRun(t, i), LAMBDA d1 :
            IF d1 = 0 \/ ~dot(i + d1) THEN none
            ELSE With(DigitRun(t, i + d1 + 1), LAMBDA d2 :
                IF d2 = 0 THEN none
                ELSE With(IF dot(i + d1 + d2 + 1)
                          THEN DigitRun(t, i + d1 + d2 + 2) ELSE 0, LAMBDA d3 :
                    IF d3 = 0
                    THEN [n |-> 2, end |-> i + d1 + d2, end2 |-> i + d1 + d2,
                          c |-> ToInt(t, i, d1), s |-> ToInt(t, i + d1 + 1, d2),
                          k |-> None]
                    ELSE [n |-> 3, end |-> i + d1 + d2 + 1 + d3,
                          end2 |-> i + d1 + d2,
                          c |-> ToInt(t, i, d1), s |-> ToInt(t, i + d1 + 1, d2),
                          k |-> ToInt(t, i + d1 + d2 + 2, d3)])))

\* re.sub(r"^\d+\.\d+(?:\.\d+)?\s*", "", t)
StripNumbering(t) ==
    With(NumberingAt(t, 1), LAMBDA m :
        IF m.n = 0 THEN t ELSE From(t, m.end + SpaceRun(t, m.end + 1) + 1))

\* A faulty variant of FuzzyTitleMatch: both titles must be longer than 3
\* characters.
FuzzyTitleMatchBothLong(text_title_only, look_title_only) ==
    /\ \/ Contains(text_title_only, look_title_only)
       \/ Contains(look_title_only, text_title_only)
       \/ text_title_only = look_title_only
    /\ Len(text_title_only) > 3
    /\ Len(look_title_only) > 3

\* The containment test of the fuzzy search (lines 821-825).
FuzzyTitleMatch(text_title_only, look_title_only) ==
    /\ \/ Contains(text_title_only, look_title_only)
       \/ Contains(look_title_only, text_title_only)
       \/ text_title_only = look_title_only
    /\ Len(text_title_only) > 3

\* The containment test of the orphan validation (lines 856-859).
OrphanTitleMatch(text_title_only, toc_title_only) ==
    /\ Len(text_title_only) > 3
    /\ \/ Contains(text_title_only, toc_title_only)
       \/ Contains(toc_title_only, text_title_only)

(***************************************************************************)
(* is_toc_false_positive                                                   *)
(***************************************************************************)
\* t, lowercased, has the word w at index i
HasAt(t, i, w) ==
    i + Len(w) - 1 <= Len(t) /\ Lowercase(SubSeq(t, i, i + Len(w) - 1)) = w

\* a \b lies between t[i] and t[i + 1]
Boundary(t, i) ==
    (i >= 1 /\ i <= Len(t) /\ IsWord(t[i])) # (i + 1 <= Len(t) /\ IsWord(t[i + 1]))

DosageUnits ==
    {<<"m", "g">>, <<"m", "l">>, <<"k", "g">>, <<"g">>, <<"l", "b">>, <<"%">>,
     <<"c", "c">>}

AgeUnits ==
    {<<"y", "e", "a", "r">>, <<"m", "o", "n", "t", "h">>, <<"w", "e", "e", "k">>,
     <<"d", "a", "y">>, <<"h", "o", "u", "r">>}

\* The indices just past a match of \d+\.\d+\s* somewhere in t.
AfterDecimal(t) ==
    {u \in 1..(Len(t) + 1) :
        \E p \in 2..(Len(t) - 1) :
            /\ t[p] = "." /\ IsDigit(t[p - 1]) /\ IsDigit(t[p + 1])
            /\ u = p + 1 + DigitRun(t, p + 1) + SpaceRun(t, p + 1 + DigitRun(t, p + 1))}

\* re.search(r"\d+\.\d+\s*(mg|ml|kg|g(?!\w)|lb|%|cc)\b", text, re.IGNORECASE)
DosagePattern(t) ==
    \E u \in AfterDecimal(t) : \E w \in DosageUnits :
        /\ HasAt(t, u, w)
        /\ Boundary(t, u + Len(w) - 1)

\* re.search(r"\d+\.\d+\s*(year|month|week|day|hour)", text, re.IGNORECASE)
AgePattern(t) ==
    \E u \in AfterDecimal(t) : \E w \in AgeUnits : HasAt(t, u, w)

\* re.match(r"^0\.\d+\s", text)
LeadingZeroDecimal(t) ==
    /\ Len(t) >= 2 /\ t[1] = "0" /\ t[2] = "."
    /\ DigitRun(t, 3) >= 1
    /\ SpaceRun(t, 3 + DigitRun(t, 3)) >= 1

\* re.sub(r"^\d+\.\s*\d+(?:\.\s*\d+)?\s*", "", text)
TextAfterNumber(t) ==
    LET dot(j)  == j <= Len(t) /\ t[j] = "."
        \* the index after a match of \.\s*\d+ at t[j]; 0 without a match
        part(j) == IF ~dot(j) THEN 0
                   ELSE With(j + 1 + SpaceRun(t, j + 1), LAMBDA d :
                            IF DigitRun(t, d) = 0 THEN 0 ELSE d + DigitRun(t, d))
    IN  With(DigitRun(t, 1), LAMBDA d1 :
            IF d1 = 0 THEN t
            ELSE With(part(d1 + 1), LAMBDA a2 :
                IF a2 = 0 THEN t
                ELSE With(part(a2), LAMBDA a3 :
                    With(IF a3 = 0 THEN a2 ELSE a3, LAMBDA e :
                        From(t, e + SpaceRun(t, e))))))

\* the characters of the string of line 351: the two quotes of ASCII and the
\* typographic quotes U+201C, U+201D, U+2018, U+2019
Quotes == {"\"", "'", "U+201C", "U+201D", "U+2018", "U+2019"}

is_toc_false_positive(text, chapter) ==
    \/ DosagePattern(text)
    \/ AgePattern(text)
    \/ LeadingZeroDecimal(text)
    \/ chapter = 0
    \/ With(TextAfterNumber(text), LAMBDA text_after_number :
           \/ Len(text_after_number) < 3
           \/ ~(IsUpper(text_after_number[1]) \/ text_after_number[1] \in Quotes))

(***************************************************************************)
(* extract_number_and_title                                                *)
(***************************************************************************)
MaxLookahead == 5

\* re.sub(r"\s*\.{2,}.*$", "", text).strip(): the text is cut at the first
\* two periods from which the line runs to the end of the text; strip() takes
\* the white space before them and a line feed the match leaves at the end
StripLeaders(t) ==
    LET hits == {i \in 1..(Len(t) - 1) :
                    t[i] = "." /\ t[i + 1] = "." /\ ToLineEnd(t, i + 2)}
    IN  IF hits = {} THEN Strip(t) ELSE Strip(SubSeq(t, 1, Min(hits) - 1))

ChapterWord == <<"c", "h", "a", "p", "t", "e", "r">>

\* "Chapter N.0 title" and "Chapter N: title" become "N.0 title" (lines 472-478)
ChapterPrefix(t) ==
    LET w == Len(ChapterWord)
        \* \s+(.+) at t[j]: the group, which ends at a line feed
        rest(j) == UpToNewline(t, GroupAfterSpace(t, j))
        tail(j) == GroupAfterSpace(t, j) > 0
    IN  With(SpaceRun(t, w + 1), LAMBDA sp :
        With(DigitRun(t, w + sp + 1), LAMBDA d :
        With(w + sp + 1 + d, LAMBDA a :
            IF ~(StartsWith(Lowercase(t), ChapterWord) /\ sp >= 1 /\ d >= 1) THEN t
            ELSE IF a + 1 <= Len(t) /\ t[a] = "." /\ t[a + 1] = "0" /\ tail(a + 2)
            THEN SubSeq(t, w + sp + 1, a - 1) \o <<".", "0", " ">> \o rest(a + 2)
            ELSE IF a <= Len(t) /\ t[a] = ":" /\ tail(a + 1)
            THEN SubSeq(t, w + sp + 1, a - 1) \o <<".", "0", " ">> \o rest(a + 1)
            ELSE t)))

\* re.search(r"\D\.(\d+\.\d+(?:\.\d+)?)\s+([A-Z])", text): the text restarts at
\* the embedded numbering (lines 481-484)
Embedded(t) ==
    LET ok(i) == /\ ~IsDigit(t[i]) /\ t[i + 1] = "."
                 /\ With(NumberingAt(t, i + 2), LAMBDA m :
                    With(SpaceRun(t, m.end + 1), LAMBDA sp :
                        /\ m.n > 0 /\ sp >= 1
                        /\ m.end + sp + 1 <= Len(t) /\ IsAsciiUpper(t[m.end + sp + 1])))
    IN  With({i \in 1..(Len(t) - 1) : ok(i)}, LAMBDA hits :
            IF hits = {} THEN t ELSE From(t, Min(hits) + 2))

\* The four OCR substitutions of lines 487-490, in order.
OcrFix1(t) ==
    IF Len(t) >= 2 /\ t[1] \in {"I", "l"} /\ IsDigit(t[2])
    THEN <<"1">> \o Tail(t) ELSE t

OcrFix2(t) ==
    LET d == DigitRun(t, 1)
    IN  IF d >= 1 /\ d + 2 <= Len(t) /\ t[d + 1] = "." /\ t[d + 2] \in {"I", "l"}
        THEN [t EXCEPT ![d + 2] = "1"] ELSE t

OcrFix3(t) ==
    With(DigitRun(t, 1), LAMBDA d1 :
    With(IF d1 >= 1 /\ d1 + 1 <= Len(t) /\ t[d1 + 1] = "."
         THEN DigitRun(t, d1 + 2) ELSE 0, LAMBDA d2 :
    With(d1 + 1 + d2 + 2, LAMBDA j :
        IF d2 >= 1 /\ j <= Len(t) /\ t[j - 1] = "." /\ t[j] \in {"I", "l"}
        THEN [t EXCEPT ![j] = "1"] ELSE t)))

OcrFix4(t) ==
    With(DigitRun(t, 1), LAMBDA d :
    With(SpaceRun(t, d + 2), LAMBDA sp :
        IF /\ d >= 1 /\ d + 1 <= Len(t) /\ t[d + 1] = "."
           /\ sp >= 1 /\ DigitRun(t, d + 2 + sp) >= 1
        THEN SubSeq(t, 1, d + 1) \o From(t, d + 2 + sp) ELSE t))

\* re.match(r"^\d+\.", t)
StartsDigitDot(t) ==
    LET d == DigitRun(t, 1) IN d >= 1 /\ d + 1 <= Len(t) /\ t[d + 1] = "."

\* The continuation lines of lines 496-506: paragraphs is doc.paragraphs (texts),
\* para_index counts from 0 as in the source.
RECURSIVE Continuation(_, _, _)
Continuation(paragraphs, para_index, offset) ==
    LET next_idx == para_index + offset
    IN  IF offset > MaxLookahead \/ ~(next_idx < Len(paragraphs)) THEN <<>>
        ELSE LET next_text == Strip(paragraphs[next_idx + 1])
             IN  IF next_text # <<>> /\ ~StartsDigitDot(next_text)
                 THEN <<" ">> \o next_text
                      \o Continuation(paragraphs, para_index, offset + 1)
                 ELSE <<>>

NotParsed ==
    [ok |-> FALSE, chapter |-> None, section |-> None, subsection |-> None,
     full_text |-> <<>>]

\* The two final patterns (lines 510-538) on the combined text: N.X.Y, then
\* N.X.  With DOTALL (a table cell) each asks for \s+ after the numbering;
\* without, for \s*(.*?)$, a text that runs to its end without a line feed
\* after the white space.
MatchNumbering(combined_text, use_dotall) ==
    LET gap(e)  == SpaceRun(combined_text, e + 1) >= 1
        line(e) == ToLineEnd(combined_text, e + 1 + SpaceRun(combined_text, e + 1))
        tail(e) == IF use_dotall THEN gap(e) ELSE line(e)
    IN  With(NumberingAt(combined_text, 1), LAMBDA m :
            IF m.n = 3 /\ tail(m.end)
            THEN [ok |-> TRUE, chapter |-> m.c, section |-> m.s,
                  subsection |-> m.k, full_text |-> combined_text]
            ELSE IF m.n >= 2 /\ tail(m.end2)
            THEN [ok |-> TRUE, chapter |-> m.c, section |-> m.s,
                  subsection |-> None, full_text |-> combined_text]
            ELSE NotParsed)

\* extract_number_and_title(text, doc, para_index); has_doc is "doc and
\* para_index is not None".
extract_number_and_title(text, has_doc, paragraphs, para_index) ==
    IF text = <<>> THEN NotParsed
    ELSE With(Embedded(ChapterPrefix(StripLeaders(text))), LAMBDA t1 :
         With(OcrFix4(OcrFix3(OcrFix2(OcrFix1(t1)))), LAMBDA t2 :
             MatchNumbering(IF has_doc
                            THEN t2 \o Continuation(paragraphs, para_index, 1)
                            ELSE t2,
                            ~has_doc)))

(***************************************************************************)
(* load_exceptions and build_toc_structure                                 *)
(***************************************************************************)
\* re.match(r"^([\d.]+)", t): the leading run of digits and dots
RECURSIVE NumDotRunFrom(_, _)
NumDotRunFrom(t, i) ==
    IF i <= Len(t) /\ (IsDigit(t[i]) \/ t[i] = ".") THEN 1 + NumDotRunFrom(t, i + 1)
    ELSE 0

NumDotRun(t) == NumDotRunFrom(t, 1)

\* One line of the exceptions file (lines 294-306): the table after the line.
LoadLine(table, raw) ==
    LET line == Strip(raw)
        eqs  == {i \in 1..Len(line) : line[i] = "="}
        wrong_part   == Strip(SubSeq(line, 1, Min(eqs) - 1))
        correct_part == Strip(From(line, Min(eqs) + 1))
        wrong_num    == SubSeq(wrong_part, 1, NumDotRun(wrong_part))
        correct_num  == SubSeq(correct_part, 1, NumDotRun(correct_part))
    IN  IF line = <<>> \/ line[1] = "#" \/ eqs = {} THEN table
        ELSE IF NumDotRun(wrong_part) = 0 \/ NumDotRun(correct_part) = 0 THEN table
        ELSE [k \in DOMAIN table \cup {wrong_num} |->
                 IF k = wrong_num THEN correct_num ELSE table[k]]

RECURSIVE LoadLines(_, _)
LoadLines(table, lines) ==
    IF lines = <<>> THEN table
    ELSE LoadLines(LoadLine(table, Head(lines)), Tail(lines))

\* load_exceptions on a file with these lines
load_exceptions(lines) == LoadLines(<<>>, lines)

\* One entry of the expected sequence, as build_toc_structure makes it.
ExpectedEntry(entry) ==
    [type |-> entry.type, chapter |-> entry.chapter, section |-> entry.section,
     subsection |-> entry.subsection, title |-> entry.title,
     title_normalized |-> normalize_for_comparison(entry.title)]

build_toc_structure(toc_entries) ==
    [i \in 1..Len(toc_entries) |-> ExpectedEntry(toc_entries[i])]

(***************************************************************************)
(* find_toc_end and get_document_elements_in_order                         *)
(***************************************************************************)
TocGap == 50

LeaderDots == <<".", ".", ".", ".", ".">>

\* The loop of find_toc_end from paragraph i (counted from 0) on.
RECURSIVE TocEndFrom(_, _, _, _, _)
TocEndFrom(paragraphs, i, toc_end, in_toc, consecutive_non_toc) ==
    IF i >= Len(paragraphs) THEN toc_end
    ELSE LET text == Strip(paragraphs[i + 1])
         IN  IF text # <<>> /\ Contains(LeaderDots, text)
             THEN TocEndFrom(paragraphs, i + 1, i, TRUE, 0)
             ELSE IF in_toc /\ text # <<>>
             THEN IF consecutive_non_toc + 1 > TocGap THEN toc_end
                  ELSE TocEndFrom(paragraphs, i + 1, toc_end, in_toc,
                                  consecutive_non_toc + 1)
             ELSE TocEndFrom(paragraphs, i + 1, toc_end, in_toc,
                             consecutive_non_toc)

find_toc_end(paragraphs) == TocEndFrom(paragraphs, 0, 0, FALSE, 0)

\* doc.paragraphs, as texts
ParagraphTexts(b) ==
    LET ps == SelectSeq(b, LAMBDA e : e.type = "paragraph")
    IN  [i \in 1..Len(ps) |-> ps[i].text]

\* the index in doc.paragraphs (from 0) of the paragraph b[j]
ParaIndex(b, j) == Cardinality({i \in 1..(j - 1) : b[i].type = "paragraph"})

\* \d+\.\d+(?:\.\d+)?\s+ at t[i]
HeaderAt(t, i) ==
    With(NumberingAt(t, i), LAMBDA m : m.n > 0 /\ SpaceRun(t, m.end + 1) >= 1)

\* re.match(r"^\d+\.\d+(?:\.\d+)?\s+", t)
HeaderCell(t) == HeaderAt(t, 1)

\* Line 672: re.split cuts the text before every line but the first that
\* starts with a numbering and white space (re.MULTILINE: a line starts after
\* a line feed); a cut at the start of the text only gives an empty part.
SplitPoints(cell_text) ==
    {q \in 2..Len(cell_text) : cell_text[q - 1] = "\n" /\ HeaderAt(cell_text, q)}

\* the parts of t from t[from] on, cut at the points of cuts, each stripped
RECURSIVE Pieces(_, _, _)
Pieces(t, from, cuts) ==
    IF cuts = {} THEN <<Strip(From(t, from))>>
    ELSE With(Min(cuts), LAMBDA q :
             <<Strip(SubSeq(t, from, q - 1))>> \o Pieces(t, q, cuts \ {q}))

\* Lines 672-690: of the parts of a cell's text, stripped, those that start
\* with a numbering and white space are yielded.
CellParts(cell_text) ==
    SelectSeq(Pieces(cell_text, 1, SplitPoints(cell_text)), HeaderCell)

\* Lines 589-614: the pictures of a paragraph that are yielded, in the order
\* of its runs: the blips with an embed key whose relationship is a part of
\* the document (a missing relationship raises KeyError, which is passed).
RelatedPictures(e) == SelectSeq(e.images, LAMBDA p : p.related)

\* image_counter when the loop of line 579 takes b[j]: the pictures that the
\* paragraphs before b[j] and after the TOC have yielded
RECURSIVE ImagesBefore(_, _, _)
ImagesBefore(b, toc_end, j) ==
    IF j <= 1 THEN 0
    ELSE ImagesBefore(b, toc_end, j - 1)
         + (IF /\ b[j - 1].type = "paragraph"
               /\ b[j - 1].images # <<>>
               /\ ParaIndex(b, j - 1) > toc_end
            THEN Len(RelatedPictures(b[j - 1])) ELSE 0)

\* Lines 589-622: the elements of type image that the paragraph b[j] yields
YieldedImages(b, j, counter) ==
    With(RelatedPictures(b[j]), LAMBDA pictures :
        [i \in 1..Len(pictures) |->
            [type |-> "image", index |-> counter + i, text |-> <<>>,
             para_index |-> ParaIndex(b, j), alt |-> pictures[i].alt,
             caption |-> pictures[i].caption]])

\* Lines 655-664: seen_cells holds id(cell._element) of the cells taken so
\* far, and a cell whose id is among them is skipped.  e.ids[c] is the id
\* that the call finds for cell c of row.cells, the cells counted row after
\* row: an address, which names an element only while the element's proxy
\* object is alive (see Addresses).
FirstSeen(e, c) == \A k \in 1..(c - 1) : e.ids[k] # e.ids[c]

\* col_index of line 658: the place of cell c in the row.cells of its row
CellCol(e, c) == Cardinality({k \in 1..(c - 1) : e.row[k] = e.row[c]})

\* Lines 659-690: what cell c of a table with headers yields, its stripped
\* text given: nothing when its id was seen or its text is no header, else
\* one element for each part that is a header, numbered from 1; index, row,
\* col and entry are the numbers of f"T{table_index}R{row_index}C{col_index}
\* E{entry_num}"
YieldedCell(e, j, c, cell_text) ==
    IF FirstSeen(e, c) /\ HeaderCell(cell_text)
    THEN With(CellParts(cell_text), LAMBDA parts :
             [k \in 1..Len(parts) |->
                 [type |-> "table_cell", index |-> j, row |-> e.row[c],
                  col |-> CellCol(e, c), entry |-> k, text |-> parts[k]]])
    ELSE <<>>

\* Lines 627-697: what a table yields: with a header cell among the cells of
\* its rows, what its cells yield, row after row; else the table
YieldedTable(e, j) ==
    With([c \in 1..Len(e.cells) |-> Strip(e.cells[c])], LAMBDA texts :
        IF \E c \in 1..Len(texts) : HeaderCell(texts[c])
        THEN Extended([c \in 1..Len(texts) |-> YieldedCell(e, j, c, texts[c])], 1)
        ELSE <<[type |-> "table", index |-> j, text |-> <<>>]>>)

\* The values that id(cell._element) can take for the cells of table e in
\* one call (line 661).  id() is the address of the proxy object of the
\* element.  The cells of one row.cells are alive together, so within a row
\* two cells have the same id exactly when they are the same element.  The
\* proxies of a row are released when the loop of line 657 goes on to the
\* next row, and the allocator may hand a released address to the proxy of
\* another element (or another address to the proxy of the same element):
\* between rows every coincidence is possible.  (A proxy that something
\* still refers to keeps its address; which proxies those are is left open
\* here, so the set has every outcome of a run and may have more.)
\* Addresses are named by the order in which they first come.
Addresses(e) ==
    {ids \in [1..Len(e.cells) -> 1..Len(e.cells)] :
        /\ \A c, d \in 1..Len(e.cells) :
               e.row[c] = e.row[d]
                   => ((ids[c] = ids[d]) <=> (e.elements[c] = e.elements[d]))
        /\ \A c \in 1..Len(e.cells) :
               ids[c] <= 1 + Max({0} \cup {ids[k] : k \in 1..(c - 1)})}

\* the body element e as the calls can find it
Allocated(e) ==
    IF e.type = "table" THEN {[e EXCEPT !.ids = ids] : ids \in Addresses(e)}
    ELSE {e}

\* the elements of the document b from b[j] on, as another call can find
\* them
RECURSIVE ReallocatedFrom(_, _)
ReallocatedFrom(b, j) ==
    IF j > Len(b) THEN {<<>>}
    ELSE {<<e>> \o d : e \in Allocated(b[j]), d \in ReallocatedFrom(b, j + 1)}

\* the document b as another call can find it: the same elements, the
\* addresses of the cells of its tables drawn anew
Reallocated(b) == ReallocatedFrom(b, 1)

\* A faulty variant of Yielded: the paragraph at the end of the TOC is part
\* of the stream.
YieldedFromTocEnd(b, toc_end, j) ==
    LET e == b[j]
    IN  IF e.type = "paragraph"
        THEN IF ParaIndex(b, j) >= toc_end
             THEN (IF e.images = <<>> THEN <<>>
                   ELSE YieldedImages(b, j, ImagesBefore(b, toc_end, j)))
                  \o (IF Strip(e.text) # <<>>
                      THEN <<[type |-> "paragraph", index |-> ParaIndex(b, j),
                              text |-> Strip(e.text)]>>
                      ELSE <<>>)
             ELSE <<>>
        ELSE YieldedTable(e, j)

\* What get_document_elements_in_order yields for the body element b[j].
Yielded(b, toc_end, j) ==
    LET e == b[j]
    IN  IF e.type = "paragraph"
        THEN IF ParaIndex(b, j) > toc_end
             THEN (IF e.images = <<>> THEN <<>>
                   ELSE YieldedImages(b, j, ImagesBefore(b, toc_end, j)))
                  \o (IF Strip(e.text) # <<>>
                      THEN <<[type |-> "paragraph", index |-> ParaIndex(b, j),
                              text |-> Strip(e.text)]>>
                      ELSE <<>>)
             ELSE <<>>
        ELSE YieldedTable(e, j)

RECURSIVE ElementsFrom(_, _, _)
ElementsFrom(b, toc_end, j) ==
    IF j > Len(b) THEN <<>>
    ELSE Yielded(b, toc_end, j) \o ElementsFrom(b, toc_end, j + 1)

get_document_elements_in_order(b, toc_end) == ElementsFrom(b, toc_end, 1)

(***************************************************************************)
(* extract_toc_from_document                                               *)
(***************************************************************************)
TocModeGap == 50

ThreeDots == <<".", ".", ".">>

\* text.replace(" ", "")
RemoveBlanks(t) == SelectSeq(t, LAMBDA c : c # " ")

\* line 368: "....." in text or "....." in text.replace(" ", "")
HasLeaders(text) ==
    Contains(LeaderDots, text) \/ Contains(LeaderDots, RemoveBlanks(text))

\* the length of the longest run of digits that ends at t[i]
RECURSIVE DigitRunBack(_, _)
DigitRunBack(t, i) ==
    IF i >= 1 /\ IsDigit(t[i]) THEN 1 + DigitRunBack(t, i - 1) ELSE 0

\* the length of the longest run of periods that ends at t[i]
RECURSIVE DotRunBack(_, _)
DotRunBack(t, i) ==
    IF i >= 1 /\ t[i] = "." THEN 1 + DotRunBack(t, i - 1) ELSE 0

\* where the leftmost match of \s*\.{2,}\s*\d+\s*$ starts in t; 0 without one
PageNumberAt(t) ==
    With(Len(t) - SpaceRunBack(t, Len(t)), LAMBDA e1 :
    With(DigitRunBack(t, e1), LAMBDA d :
    With(e1 - d - SpaceRunBack(t, e1 - d), LAMBDA e2 :
    With(DotRunBack(t, e2), LAMBDA dots :
        IF d = 0 \/ dots < 2 THEN 0
        ELSE e2 - dots - SpaceRunBack(t, e2 - dots) + 1))))

\* lines 312-320
normalize_toc_text(text) ==
    IF text = <<>> THEN <<>>
    ELSE With(PageNumberAt(text), LAMBDA cut :
             Strip(CollapseSpaces(IF cut = 0 THEN text
                                  ELSE SubSeq(text, 1, cut - 1))))

\* re.match(r"^\d+\.\d+", text)
StartsNumbering(t) ==
    With(DigitRun(t, 1), LAMBDA d1 :
        /\ d1 >= 1
        /\ d1 + 2 <= Len(t)
        /\ t[d1 + 1] = "."
        /\ IsDigit(t[d1 + 2]))

\* \s+(.+) at t[i]: white space, then one character at least
TitleFollows(t, i) == GroupAfterSpace(t, i) > 0

NoTocMatch == [kind |-> "none", chapter |-> None, section |-> None, subsection |-> None]

\* Lines 387-440: the pattern a normalized line matches, tried in the order
\* chapter, section, subsection.
TocMatch(t) ==
    With(DigitRun(t, 1), LAMBDA d1 :
        IF d1 = 0 \/ d1 + 1 > Len(t) \/ t[d1 + 1] # "." THEN NoTocMatch
        ELSE With(d1 + 2 + SpaceRun(t, d1 + 2), LAMBDA p2 :
             With(DigitRun(t, p2), LAMBDA d2 :
                 IF d2 = 0 THEN NoTocMatch
                 ELSE IF t[p2] = "0" /\ TitleFollows(t, p2 + 1)
                 THEN [kind |-> "chapter", chapter |-> ToInt(t, 1, d1),
                       section |-> 0, subsection |-> None]
                 ELSE IF TitleFollows(t, p2 + d2) /\ ToInt(t, p2, d2) > 0
                 THEN [kind |-> "section", chapter |-> ToInt(t, 1, d1),
                       section |-> ToInt(t, p2, d2), subsection |-> None]
                 ELSE IF p2 + d2 > Len(t) \/ t[p2 + d2] # "." THEN NoTocMatch
                 ELSE With(p2 + d2 + 1 + SpaceRun(t, p2 + d2 + 1), LAMBDA p3 :
                      With(DigitRun(t, p3), LAMBDA d3 :
                          IF d3 >= 1 /\ TitleFollows(t, p3 + d3)
                          THEN [kind |-> "subsection", chapter |-> ToInt(t, 1, d1),
                                section |-> ToInt(t, p2, d2),
                                subsection |-> ToInt(t, p3, d3)]
                          ELSE NoTocMatch)))))

\* Lines 383-440: the entries a line of the TOC adds, none or one.
Collected(text) ==
    With(normalize_toc_text(text), LAMBDA normalized :
    With(TocMatch(normalized), LAMBDA m :
        IF m.kind = "none" \/ is_toc_false_positive(normalized, m.chapter)
        THEN <<>>
        ELSE <<[type |-> m.kind, chapter |-> m.chapter, section |-> m.section,
                subsection |-> m.subsection, title |-> normalized]>>))

(***************************************************************************)
(* parse_document_structure: the steps of the loop body                    *)
(***************************************************************************)
FuzzyWindow == 5

\* lines 740-747
ParseSource(source, paragraphs) ==
    IF source.type = "paragraph"
    THEN extract_number_and_title(source.text, TRUE, paragraphs, source.index)
    ELSE IF source.type = "table_cell"
    THEN extract_number_and_title(source.text, FALSE, <<>>, 0)
    ELSE NotParsed

\* f"{chapter}.{section}" plus f".{subsection}" (lines 753-755)
ParsedNum(chapter, section, subsection) ==
    FormatInt(chapter) \o <<".">> \o FormatInt(section)
    \o (IF subsection # None THEN <<".">> \o FormatInt(subsection) ELSE <<>>)

\* int(p) succeeds on the parts a table of load_exceptions can hold
IsInt(p) == p # <<>> /\ \A i \in 1..Len(p) : IsDigit(p[i])

\* Lines 757-768: the numbering after the exception table; raised is TRUE when
\* int() raises ValueError.
ApplyExceptions(table, chapter, section, subsection) ==
    LET parsed_num == ParsedNum(chapter, section, subsection)
        same       == [raised |-> FALSE, chapter |-> chapter, section |-> section,
                       subsection |-> subsection]
        error      == [raised |-> TRUE, chapter |-> chapter, section |-> section,
                       subsection |-> subsection]
    IN  IF parsed_num \notin DOMAIN table THEN same
        ELSE LET parts == Split(table[parsed_num], ".")
                 int(i) == ToInt(parts[i], 1, Len(parts[i]))
             IN  IF Len(parts) = 3
                 THEN IF \A i \in 1..3 : IsInt(parts[i])
                      THEN [raised |-> FALSE, chapter |-> int(1), section |-> int(2),
                            subsection |-> int(3)]
                      ELSE error
                 ELSE IF Len(parts) = 2
                 THEN IF \A i \in 1..2 : IsInt(parts[i])
                      THEN [raised |-> FALSE, chapter |-> int(1), section |-> int(2),
                            subsection |-> None]
                      ELSE error
                 ELSE same

\* lines 796-800
NumberingMatch(entry, chapter, section, subsection) ==
    /\ entry.chapter = chapter
    /\ entry.section = section
    /\ entry.subsection = subsection

\* text_title_only of lines 806-809 and 851-854
TitleOnly(full_text) == StripNumbering(normalize_for_comparison(full_text))

\* A faulty variant of FuzzyHits: the search runs to the end of the sequence.
FuzzyHitsWide(seq, idx, full_text) ==
    LET text_title_only == TitleOnly(full_text)
    IN  {j \in idx..(Len(seq) - 1) :
            FuzzyTitleMatch(text_title_only,
                            StripNumbering(seq[j + 1].title_normalized))}

\* The indices (from 0) of the window entries whose title matches (lines 812-827)
FuzzyHits(seq, idx, full_text) ==
    LET last_idx == IF idx + FuzzyWindow < Len(seq) THEN idx + FuzzyWindow ELSE Len(seq)
        text_title_only == TitleOnly(full_text)
    IN  {j \in idx..(last_idx - 1) :
            FuzzyTitleMatch(text_title_only,
                            StripNumbering(seq[j + 1].title_normalized))}

\* A faulty variant of FoundInToc: any entry with the candidate's numbering
\* may vouch for it.
FoundInTocAny(seq, chapter, section, subsection, full_text) ==
    \E j \in 1..Len(seq) :
        /\ NumberingMatch(seq[j], chapter, section, subsection)
        /\ OrphanTitleMatch(TitleOnly(full_text),
                            StripNumbering(seq[j].title_normalized))

\* Lines 838-861: the first entry with the candidate's numbering decides.
FoundInToc(seq, chapter, section, subsection, full_text) ==
    LET same == {j \in 1..Len(seq) : NumberingMatch(seq[j], chapter, section, subsection)}
    IN  /\ same # {}
        /\ OrphanTitleMatch(TitleOnly(full_text),
                            StripNumbering(seq[Min(same)].title_normalized))

(***************************************************************************)
(* Faulty variants of Align: each departs from lines 793-866 in one place. *)
(* The properties of the alignment are sensitive to each of them.          *)
(***************************************************************************)
\* an orphan moves the cursor back onto the entry it was found at
AlignRewind(seq, idx, chapter, section, subsection, full_text) ==
    LET keep(path, i) == [path |-> path, chapter |-> chapter, section |-> section,
                          subsection |-> subsection, expected_index |-> i]
        same == {j \in 1..Len(seq) : NumberingMatch(seq[j], chapter, section, subsection)}
    IN  IF ~(idx < Len(seq)) THEN keep("unchecked", idx)
        ELSE IF NumberingMatch(seq[idx + 1], chapter, section, subsection)
        THEN keep("exact", idx + 1)
        ELSE With(FuzzyHits(seq, idx, full_text), LAMBDA hits :
            IF hits # {}
            THEN With(Min(hits), LAMBDA match_idx :
                     [path |-> "fuzzy", chapter |-> seq[match_idx + 1].chapter,
                      section |-> seq[match_idx + 1].section,
                      subsection |-> seq[match_idx + 1].subsection,
                      expected_index |-> match_idx + 1])
            ELSE IF FoundInToc(seq, chapter, section, subsection, full_text)
            THEN keep("orphan", Min(same) - 1)
            ELSE keep("reject", idx))

\* a relocation moves the cursor one entry too far
AlignOvershoot(seq, idx, chapter, section, subsection, full_text) ==
    LET keep(path, i) == [path |-> path, chapter |-> chapter, section |-> section,
                          subsection |-> subsection, expected_index |-> i]
    IN  IF ~(idx < Len(seq)) THEN keep("unchecked", idx)
        ELSE IF NumberingMatch(seq[idx + 1], chapter, section, subsection)
        THEN keep("exact", idx + 1)
        ELSE With(FuzzyHits(seq, idx, full_text), LAMBDA hits :
            IF hits # {}
            THEN With(Min(hits), LAMBDA match_idx :
                     [path |-> "fuzzy", chapter |-> seq[match_idx + 1].chapter,
                      section |-> seq[match_idx + 1].section,
                      subsection |-> seq[match_idx + 1].subsection,
                      expected_index |-> match_idx + 2])
            ELSE IF FoundInToc(seq, chapter, section, subsection, full_text)
            THEN keep("orphan", idx)
            ELSE keep("reject", idx))

\* a relocation moves the cursor but keeps the numbering parsed from the text
AlignKeepParsed(seq, idx, chapter, section, subsection, full_text) ==
    LET keep(path, i) == [path |-> path, chapter |-> chapter, section |-> section,
                          subsection |-> subsection, expected_index |-> i]
    IN  IF ~(idx < Len(seq)) THEN keep("unchecked", idx)
        ELSE IF NumberingMatch(seq[idx + 1], chapter, section, subsection)
        THEN keep("exact", idx + 1)
        ELSE With(FuzzyHits(seq, idx, full_text), LAMBDA hits :
            IF hits # {}
            THEN With(Min(hits), LAMBDA match_idx :
                     keep("fuzzy", match_idx + 1))
            ELSE IF FoundInToc(seq, chapter, section, subsection, full_text)
            THEN keep("orphan", idx)
            ELSE keep("reject", idx))

\* the title search runs before the comparison with the entry at the cursor
AlignFuzzyFirst(seq, idx, chapter, section, subsection, full_text) ==
    LET keep(path, i) == [path |-> path, chapter |-> chapter, section |-> section,
                          subsection |-> subsection, expected_index |-> i]
    IN  IF ~(idx < Len(seq)) THEN keep("unchecked", idx)
        ELSE With(FuzzyHits(seq, idx, full_text), LAMBDA hits :
            IF hits # {}
            THEN With(Min(hits), LAMBDA match_idx :
                     [path |-> "fuzzy", chapter |-> seq[match_idx + 1].chapter,
                      section |-> seq[match_idx + 1].section,
                      subsection |-> seq[match_idx + 1].subsection,
                      expected_index |-> match_idx + 1])
            ELSE IF NumberingMatch(seq[idx + 1], chapter, section, subsection)
            THEN keep("exact", idx + 1)
            ELSE IF FoundInToc(seq, chapter, section, subsection, full_text)
            THEN keep("orphan", idx)
            ELSE keep("reject", idx))

\* an orphan moves the cursor on by one
AlignOrphanAdvances(seq, idx, chapter, section, subsection, full_text) ==
    LET keep(path, i) == [path |-> path, chapter |-> chapter, section |-> section,
                          subsection |-> subsection, expected_index |-> i]
    IN  IF ~(idx < Len(seq)) THEN keep("unchecked", idx)
        ELSE IF NumberingMatch(seq[idx + 1], chapter, section, subsection)
        THEN keep("exact", idx + 1)
        ELSE With(FuzzyHits(seq, idx, full_text), LAMBDA hits :
            IF hits # {}
            THEN With(Min(hits), LAMBDA match_idx :
                     [path |-> "fuzzy", chapter |-> seq[match_idx + 1].chapter,
                      section |-> seq[match_idx + 1].section,
                      subsection |-> seq[match_idx + 1].subsection,
                      expected_index |-> match_idx + 1])
            ELSE IF FoundInToc(seq, chapter, section, subsection, full_text)
            THEN keep("orphan", idx + 1)
            ELSE keep("reject", idx))

\* Lines 793-866: how the candidate is settled.  path is "exact", "fuzzy",
\* "orphan", "reject", or "unchecked" when the cursor is at the end of the
\* sequence and the block is skipped.
Align(seq, idx, chapter, section, subsection, full_text) ==
    LET keep(path, i) == [path |-> path, chapter |-> chapter, section |-> section,
                          subsection |-> subsection, expected_index |-> i]
    IN  IF ~(idx < Len(seq)) THEN keep("unchecked", idx)
        ELSE IF NumberingMatch(seq[idx + 1], chapter, section, subsection)
        THEN keep("exact", idx + 1)
        ELSE With(FuzzyHits(seq, idx, full_text), LAMBDA hits :
            IF hits # {}
            THEN With(Min(hits), LAMBDA match_idx :
                     [path |-> "fuzzy", chapter |-> seq[match_idx + 1].chapter,
                      section |-> seq[match_idx + 1].section,
                      subsection |-> seq[match_idx + 1].subsection,
                      expected_index |-> match_idx + 1])
            ELSE IF FoundInToc(seq, chapter, section, subsection, full_text)
            THEN keep("orphan", idx)
            ELSE keep("reject", idx))

\* A faulty variant of Put: the other keys are lost.
PutAlone(f, k, v) == [x \in {k} |-> v]

\* f with f[k] = v, whether or not k was a key
Put(f, k, v) == [x \in DOMAIN f \cup {k} |-> IF x = k THEN v ELSE f[x]]

\* A faulty variant of Append1: the element is dropped.
AppendDropped(f, k, v) == f

\* A faulty variant of Append1: the element is put at the head of the list.
AppendFront(f, k, v) == [f EXCEPT ![k] = <<v>> \o @]

\* dict[k].append(v); the key is present wherever the source appends
Append1(f, k, v) == [f EXCEPT ![k] = Append(@, v)]

\* chapters after "if chapter not in chapters: chapters[chapter] = {...}"
WithChapter(chs, chapter) ==
    IF chapter \in DOMAIN chs THEN chs ELSE Put(chs, chapter, <<>>)

\* ... and after "if section not in chapters[chapter]['sections']: ..."
WithSection(chs, chapter, section) ==
    LET c1 == WithChapter(chs, chapter)
    IN  IF section \in DOMAIN c1[chapter] THEN c1
        ELSE [c1 EXCEPT ![chapter] = Put(@, section, {})]

\* ... and after "if subsection not in ...['subsections']: ..."
WithSubsection(chs, chapter, section, subsection) ==
    LET c2 == WithSection(chs, chapter, section)
    IN  [c2 EXCEPT ![chapter][section] = @ \cup {subsection}]

\* A faulty variant of Ensure: the list is reset at every confirmation.
EnsureReset(elems, key, is_new) == Put(elems, key, <<>>)

\* the element list of a key the source has just made sure of: reset to []
\* when the key was new, kept otherwise
Ensure(elems, key, is_new) == IF is_new THEN Put(elems, key, <<>>) ELSE elems

\* split_into_sections is not running
NoSplit ==
    [chapter_elements |-> <<>>, chapter_num |-> 0, chapter_title |-> <<>>,
     next |-> 1, sections |-> <<>>,
     current_section |-> [number |-> <<>>, title |-> <<>>, elements |-> <<>>]]

NoLast ==
    [kind |-> "none", path |-> "none", at |-> 0, parsed |-> <<None, None, None>>,
     numbering |-> <<None, None, None>>, key |-> <<None, None, None>>,
     full_text |-> <<>>, cursor |-> 0]

\* The stream the loop of line 728 iterates over.
Stream == get_document_elements_in_order(body, toc_end_index)

\* A faulty variant of Confirm: a heading makes the node of its own key only;
\* the chapter of a section and the section of a subsection get no element
\* list unless a heading of their own is confirmed.
ConfirmNoAncestors(chapter, section, subsection, element) ==
    LET new_chapter == chapter \notin DOMAIN chapters
        new_section == new_chapter \/ section \notin DOMAIN chapters[chapter]
        new_subsection == new_section \/ subsection \notin chapters[chapter][section]
    IN  IF section = 0
        THEN /\ current_chapter' = chapter
             /\ current_section' = None
             /\ current_subsection' = None
             /\ chapters' = WithChapter(chapters, chapter)
             /\ chapter_elements' =
                    Append1(Ensure(chapter_elements, chapter, new_chapter),
                            chapter, element)
             /\ UNCHANGED <<section_elements, subsection_elements>>
        ELSE IF subsection = None
        THEN /\ current_chapter' = chapter
             /\ current_section' = section
             /\ current_subsection' = None
             /\ chapters' = WithSection(chapters, chapter, section)
             /\ chapter_elements' = chapter_elements
             /\ section_elements' =
                    Append1(Ensure(section_elements, <<chapter, section>>, new_section),
                            <<chapter, section>>, element)
             /\ UNCHANGED subsection_elements
        ELSE /\ current_chapter' = chapter
             /\ current_section' = section
             /\ current_subsection' = subsection
             /\ chapters' = WithSubsection(chapters, chapter, section, subsection)
             /\ chapter_elements' = chapter_elements
             /\ section_elements' = section_elements
             /\ subsection_elements' =
                    Append1(Ensure(subsection_elements,
                                   <<chapter, section, subsection>>, new_subsection),
                            <<chapter, section, subsection>>, element)

\* A faulty variant of Confirm: a chapter heading and a section heading leave
\* the deeper pointers as they were.
ConfirmKeepDeeper(chapter, section, subsection, element) ==
    LET new_chapter == chapter \notin DOMAIN chapters
        new_section == new_chapter \/ section \notin DOMAIN chapters[chapter]
        new_subsection == new_section \/ subsection \notin chapters[chapter][section]
    IN  IF section = 0
        THEN /\ current_chapter' = chapter
             /\ UNCHANGED <<current_section, current_subsection>>
             /\ chapters' = WithChapter(chapters, chapter)
             /\ chapter_elements' =
                    Append1(Ensure(chapter_elements, chapter, new_chapter),
                            chapter, element)
             /\ UNCHANGED <<section_elements, subsection_elements>>
        ELSE IF subsection = None
        THEN /\ current_chapter' = chapter
             /\ current_section' = section
             /\ UNCHANGED current_subsection
             /\ chapters' = WithSection(chapters, chapter, section)
             /\ chapter_elements' = Ensure(chapter_elements, chapter, new_chapter)
             /\ section_elements' =
                    Append1(Ensure(section_elements, <<chapter, section>>, new_section),
                            <<chapter, section>>, element)
             /\ UNCHANGED subsection_elements
        ELSE /\ current_chapter' = chapter
             /\ current_section' = section
             /\ current_subsection' = subsection
             /\ chapters' = WithSubsection(chapters, chapter, section, subsection)
             /\ chapter_elements' = Ensure(chapter_elements, chapter, new_chapter)
             /\ section_elements' =
                    Ensure(section_elements, <<chapter, section>>, new_section)
             /\ subsection_elements' =
                    Append1(Ensure(subsection_elements,
                                   <<chapter, section, subsection>>, new_subsection),
                            <<chapter, section, subsection>>, element)

\* A faulty variant of Confirm: a heading with a subsection number is filed as
\* a subsection whatever its section number.
ConfirmBySubsection(chapter, section, subsection, element) ==
    LET new_chapter == chapter \notin DOMAIN chapters
        new_section == new_chapter \/ section \notin DOMAIN chapters[chapter]
        new_subsection == new_section \/ subsection \notin chapters[chapter][section]
    IN  IF section = 0 /\ subsection = None
        THEN /\ current_chapter' = chapter
             /\ current_section' = None
             /\ current_subsection' = None
             /\ chapters' = WithChapter(chapters, chapter)
             /\ chapter_elements' =
                    Append1(Ensure(chapter_elements, chapter, new_chapter),
                            chapter, element)
             /\ UNCHANGED <<section_elements, subsection_elements>>
        ELSE IF subsection = None
        THEN /\ current_chapter' = chapter
             /\ current_section' = section
             /\ current_subsection' = None
             /\ chapters' = WithSection(chapters, chapter, section)
             /\ chapter_elements' = Ensure(chapter_elements, chapter, new_chapter)
             /\ section_elements' =
                    Append1(Ensure(section_elements, <<chapter, section>>, new_section),
                            <<chapter, section>>, element)
             /\ UNCHANGED subsection_elements
        ELSE /\ current_chapter' = chapter
             /\ current_section' = section
             /\ current_subsection' = subsection
             /\ chapters' = WithSubsection(chapters, chapter, section, subsection)
             /\ chapter_elements' = Ensure(chapter_elements, chapter, new_chapter)
             /\ section_elements' =
                    Ensure(section_elements, <<chapter, section>>, new_section)
             /\ subsection_elements' =
                    Append1(Ensure(subsection_elements,
                                   <<chapter, section, subsection>>, new_subsection),
                            <<chapter, section, subsection>>, element)

\* Lines 868-933: a confirmed heading updates the pointers and the nodes.
Confirm(chapter, section, subsection, element) ==
    LET new_chapter == chapter \notin DOMAIN chapters
        new_section == new_chapter \/ section \notin DOMAIN chapters[chapter]
        new_subsection == new_section \/ subsection \notin chapters[chapter][section]
    IN  IF section = 0
        THEN /\ current_chapter' = chapter
             /\ current_section' = None
             /\ current_subsection' = None
             /\ chapters' = WithChapter(chapters, chapter)
             /\ chapter_elements' =
                    Append1(Ensure(chapter_elements, chapter, new_chapter),
                            chapter, element)
             /\ UNCHANGED <<section_elements, subsection_elements>>
        ELSE IF subsection = None
        THEN /\ current_chapter' = chapter
             /\ current_section' = section
             /\ current_subsection' = None
             /\ chapters' = WithSection(chapters, chapter, section)
             /\ chapter_elements' = Ensure(chapter_elements, chapter, new_chapter)
             /\ section_elements' =
                    Append1(Ensure(section_elements, <<chapter, section>>, new_section),
                            <<chapter, section>>, element)
             /\ UNCHANGED subsection_elements
        ELSE /\ current_chapter' = chapter
             /\ current_section' = section
             /\ current_subsection' = subsection
             /\ chapters' = WithSubsection(chapters, chapter, section, subsection)
             /\ chapter_elements' = Ensure(chapter_elements, chapter, new_chapter)
             /\ section_elements' =
                    Ensure(section_elements, <<chapter, section>>, new_section)
             /\ subsection_elements' =
                    Append1(Ensure(subsection_elements,
                                   <<chapter, section, subsection>>, new_subsection),
                            <<chapter, section, subsection>>, element)

\* A faulty variant of Candidate: the candidate is aligned under the numbering
\* parsed from its text, and the exception table is consulted too late.
CandidateUnfixed(b, table, seq, idx, source) ==
    With(ParseSource(source, ParagraphTexts(b)), LAMBDA parsed :
        IF ~parsed.ok THEN [kind |-> "content"]
        ELSE With(ApplyExceptions(table, parsed.chapter, parsed.section,
                                  parsed.subsection), LAMBDA fixed :
             LET seen(kind, path, key, cursor) ==
                     [kind |-> kind, path |-> path,
                      parsed |-> <<parsed.chapter, parsed.section, parsed.subsection>>,
                      numbering |-> <<fixed.chapter, fixed.section, fixed.subsection>>,
                      key |-> key, full_text |-> parsed.full_text,
                      expected_index |-> cursor]
             IN  IF fixed.raised
                 THEN seen("raised", "none", <<None, None, None>>, idx)
                 ELSE With(Align(seq, idx, parsed.chapter, parsed.section,
                                 parsed.subsection, parsed.full_text), LAMBDA a :
                     IF a.path = "reject"
                     THEN seen("rejected", "reject", <<None, None, None>>, idx)
                     ELSE seen("heading", a.path,
                               <<a.chapter, a.section, a.subsection>>,
                               a.expected_index))))

\* What lines 740-866 make of a source: the parse, the numbering after the
\* exception table, and how the candidate is settled.
Candidate(b, table, seq, idx, source) ==
    With(ParseSource(source, ParagraphTexts(b)), LAMBDA parsed :
        IF ~parsed.ok THEN [kind |-> "content"]
        ELSE With(ApplyExceptions(table, parsed.chapter, parsed.section,
                                  parsed.subsection), LAMBDA fixed :
             LET seen(kind, path, key, cursor) ==
                     [kind |-> kind, path |-> path,
                      parsed |-> <<parsed.chapter, parsed.section, parsed.subsection>>,
                      numbering |-> <<fixed.chapter, fixed.section, fixed.subsection>>,
                      key |-> key, full_text |-> parsed.full_text,
                      expected_index |-> cursor]
             IN  IF fixed.raised
                 THEN seen("raised", "none", <<None, None, None>>, idx)
                 ELSE With(Align(seq, idx, fixed.chapter, fixed.section,
                                 fixed.subsection, parsed.full_text), LAMBDA a :
                     IF a.path = "reject"
                     THEN seen("rejected", "reject", <<None, None, None>>, idx)
                     ELSE seen("heading", a.path,
                               <<a.chapter, a.section, a.subsection>>,
                               a.expected_index))))

\* A faulty variant of Reject: the element of the rejected candidate is
\* appended to the node the pointers name, as an element without numbering is.
RejectAsContent ==
    /\ pos' = pos + 1
    /\ subsection_elements' =
           IF /\ current_chapter # None /\ current_subsection # None
              /\ <<current_chapter, current_section, current_subsection>>
                     \in DOMAIN subsection_elements
           THEN Append1(subsection_elements,
                        <<current_chapter, current_section, current_subsection>>,
                        [type |-> "paragraph", at |-> pos])
           ELSE subsection_elements
    /\ section_elements' =
           IF /\ current_chapter # None /\ current_subsection = None
              /\ current_section # None
              /\ <<current_chapter, current_section>> \in DOMAIN section_elements
           THEN Append1(section_elements, <<current_chapter, current_section>>,
                        [type |-> "paragraph", at |-> pos])
           ELSE section_elements
    /\ chapter_elements' =
           IF /\ current_chapter # None /\ current_subsection = None
              /\ current_section = None
              /\ current_chapter \in DOMAIN chapter_elements
           THEN Append1(chapter_elements, current_chapter,
                        [type |-> "paragraph", at |-> pos])
           ELSE chapter_elements
    /\ UNCHANGED <<pc, expected_index, found_count, chapters, current_chapter,
                   current_section, current_subsection>>

\* Lines 863-866: the candidate is rejected.  found_count, raised at line
\* 770, is lowered again, and "continue" takes the next element.
Reject ==
    /\ pos' = pos + 1
    /\ UNCHANGED <<pc, expected_index, found_count, chapters, current_chapter,
                   current_section, current_subsection, chapter_elements,
                   section_elements, subsection_elements>>

\* the number of continuation lines that lines 496-506 append
RECURSIVE Peeked(_, _, _)
Peeked(paragraphs, para_index, offset) ==
    IF offset > MaxLookahead \/ ~(para_index + offset < Len(paragraphs)) THEN 0
    ELSE With(Strip(paragraphs[para_index + offset + 1]), LAMBDA next_text :
             IF next_text # <<>> /\ ~StartsDigitDot(next_text)
             THEN 1 + Peeked(paragraphs, para_index, offset + 1)
             ELSE 0)

\* A faulty variant of Heading: a confirmed heading takes the continuation
\* lines out of the stream, as a reader that consumes what it looks at would.
HeadingConsumesPeek ==
    /\ pc = "run"
    /\ \E st \in {Stream} : pos <= Len(st) /\ \E source \in {st[pos]} :
       \E c \in {Candidate(body, exceptions, expected_sequence, expected_index,
                           source)} :
           /\ c.kind # "content"
           /\ last' = [kind |-> c.kind, path |-> c.path, at |-> pos,
                       parsed |-> c.parsed, numbering |-> c.numbering,
                       key |-> c.key, full_text |-> c.full_text,
                       cursor |-> expected_index]
           /\ IF c.kind = "raised"
              THEN /\ pc' = "error"
                   /\ UNCHANGED <<pos, expected_index, found_count, chapters,
                                  current_chapter, current_section,
                                  current_subsection, chapter_elements,
                                  section_elements, subsection_elements>>
              ELSE IF c.kind = "rejected"
              THEN Reject
              ELSE /\ pos' = pos + 1 + (IF source.type = "paragraph"
                                     THEN Peeked(ParagraphTexts(body),
                                                 source.index, 1)
                                     ELSE 0)
                   /\ pc' = pc
                   /\ expected_index' = c.expected_index
                   /\ found_count' = found_count + 1
                   /\ Confirm(c.key[1], c.key[2], c.key[3],
                              [type |-> IF source.type = "table_cell"
                                        THEN "table_cell" ELSE "paragraph",
                               at |-> pos])
    /\ UNCHANGED <<scan, split, written, body, exceptions, expected_sequence, toc_end_index, earlier>>

\* One turn of the loop on an element that parses as a numbered heading
\* (lines 749-933).
Heading ==
    /\ pc = "run"
    /\ \E st \in {Stream} : pos <= Len(st) /\ \E source \in {st[pos]} :
       \E c \in {Candidate(body, exceptions, expected_sequence, expected_index,
                           source)} :
           /\ c.kind # "content"
           /\ last' = [kind |-> c.kind, path |-> c.path, at |-> pos,
                       parsed |-> c.parsed, numbering |-> c.numbering,
                       key |-> c.key, full_text |-> c.full_text,
                       cursor |-> expected_index]
           /\ IF c.kind = "raised"
              THEN /\ pc' = "error"
                   /\ UNCHANGED <<pos, expected_index, found_count, chapters,
                                  current_chapter, current_section,
                                  current_subsection, chapter_elements,
                                  section_elements, subsection_elements>>
              ELSE IF c.kind = "rejected"
              THEN Reject
              ELSE /\ pos' = pos + 1
                   /\ pc' = pc
                   /\ expected_index' = c.expected_index
                   /\ found_count' = found_count + 1
                   /\ Confirm(c.key[1], c.key[2], c.key[3],
                              [type |-> IF source.type = "table_cell"
                                        THEN "table_cell" ELSE "paragraph",
                               at |-> pos])
    /\ UNCHANGED <<scan, split, written, body, exceptions, expected_sequence, toc_end_index, earlier>>

\* A faulty variant of Content: the element goes to the open chapter, however
\* deep the node the pointers name.
ContentToChapter ==
    /\ pc = "run"
    /\ \E st \in {Stream} : pos <= Len(st) /\ \E source \in {st[pos]} :
       \E c \in {Candidate(body, exceptions, expected_sequence, expected_index,
                           source)} :
           /\ c.kind = "content"
           /\ chapter_elements' =
                  IF /\ current_chapter # None
                     /\ current_chapter \in DOMAIN chapter_elements
                  THEN Append1(chapter_elements, current_chapter,
                               [type |-> source.type, at |-> pos])
                  ELSE chapter_elements
           /\ last' = [NoLast EXCEPT !.kind = "content", !.at = pos,
                                     !.cursor = expected_index]
    /\ pos' = pos + 1
    /\ UNCHANGED <<scan, split, written, body, exceptions, expected_sequence, toc_end_index, pc,
                   expected_index, found_count, chapters, current_chapter,
                   current_section, current_subsection, section_elements,
                   subsection_elements, earlier>>

\* One turn of the loop on an element without numbering (lines 934-952).
Content ==
    /\ pc = "run"
    /\ \E st \in {Stream} : pos <= Len(st) /\ \E source \in {st[pos]} :
       \E c \in {Candidate(body, exceptions, expected_sequence, expected_index,
                           source)} :
           LET element == [type |-> source.type, at |-> pos]
               sub_key == <<current_chapter, current_section, current_subsection>>
               sec_key == <<current_chapter, current_section>>
           IN  /\ c.kind = "content"
               /\ subsection_elements' =
                      IF /\ current_chapter # None /\ current_subsection # None
                         /\ sub_key \in DOMAIN subsection_elements
                      THEN Append1(subsection_elements, sub_key, element)
                      ELSE subsection_elements
               /\ section_elements' =
                      IF /\ current_chapter # None /\ current_subsection = None
                         /\ current_section # None
                         /\ sec_key \in DOMAIN section_elements
                      THEN Append1(section_elements, sec_key, element)
                      ELSE section_elements
               /\ chapter_elements' =
                      IF /\ current_chapter # None /\ current_subsection = None
                         /\ current_section = None
                         /\ current_chapter \in DOMAIN chapter_elements
                      THEN Append1(chapter_elements, current_chapter, element)
                      ELSE chapter_elements
               /\ last' = [NoLast EXCEPT !.kind = "content", !.at = pos,
                                         !.cursor = expected_index]
    /\ pos' = pos + 1
    /\ UNCHANGED <<scan, split, written, body, exceptions, expected_sequence, toc_end_index, pc,
                   expected_index, found_count, chapters, current_chapter,
                   current_section, current_subsection, earlier>>

\* The stream is exhausted: the function returns (line 957).
Return ==
    /\ pc = "run"
    /\ pos > Len(Stream)
    /\ pc' = "done"
    /\ UNCHANGED <<scan, split, written, body, exceptions, expected_sequence, toc_end_index, pos,
                   expected_index, found_count, chapters, current_chapter,
                   current_section, current_subsection, chapter_elements,
                   section_elements, subsection_elements, last, earlier>>

Next == Heading \/ Content \/ Return

\* what a call hands back: the tuple of line 957, or the exception
Result ==
    [pc |-> pc, chapters |-> chapters, chapter_elements |-> chapter_elements,
     section_elements |-> section_elements,
     subsection_elements |-> subsection_elements]

\* a call that has ended: the document as it found it, the content stream it
\* took and what it handed back
Call == [body |-> body, stream |-> Stream, result |-> Result]

\* A faulty variant of Again: the cursor survives from one call to the next,
\* as a module-level variable would.
AgainKeepCursor ==
    /\ pc \in {"done", "error"}
    /\ earlier = <<>>
    /\ earlier' = Append(earlier, Call)
    /\ body' \in Reallocated(body)
    /\ pos' = 1
    /\ pc' = "run"
    /\ found_count' = 0
    /\ chapters' = <<>>
    /\ current_chapter' = None
    /\ current_section' = None
    /\ current_subsection' = None
    /\ chapter_elements' = <<>>
    /\ section_elements' = <<>>
    /\ subsection_elements' = <<>>
    /\ last' = NoLast
    /\ UNCHANGED <<scan, split, written, exceptions, expected_sequence, toc_end_index,
                   expected_index>>

\* The second run: the function is called again with the arguments of the
\* call that has ended.  The arguments are as they were (the function assigns none of them)
\* and every local starts afresh (lines 709-726).  The document is the same
\* object; the proxies of the cells of its tables are made anew by the loops
\* of lines 646 and 657, at addresses of the allocator's choice.
Again ==
    /\ pc \in {"done", "error"}
    /\ earlier = <<>>
    /\ earlier' = Append(earlier, Call)
    /\ body' \in Reallocated(body)
    /\ pos' = 1
    /\ pc' = "run"
    /\ expected_index' = 0
    /\ found_count' = 0
    /\ chapters' = <<>>
    /\ current_chapter' = None
    /\ current_section' = None
    /\ current_subsection' = None
    /\ chapter_elements' = <<>>
    /\ section_elements' = <<>>
    /\ subsection_elements' = <<>>
    /\ last' = NoLast
    /\ UNCHANGED <<scan, split, written, exceptions, expected_sequence, toc_end_index>>

NextAgain == Next \/ Again

(***************************************************************************)
(* Inputs.                                                                 *)
(***************************************************************************)
MaxBody == 3

MaxExpected == 2

BoundedSeq(S, n) == UNION {[1..m -> S] : m \in 0..n}

\* a paragraph of the body without pictures
Para(t) ==
    [type |-> "paragraph", text |-> t, cells |-> <<>>, row |-> <<>>,
     elements |-> <<>>, ids |-> <<>>, images |-> <<>>]

\* a picture of a paragraph: a blip with an embed key, the descr and title of
\* the docPr of its drawing, and whether doc.part.related_parts has its part
Picture(alt, caption, related) ==
    [alt |-> alt, caption |-> caption, related |-> related]

\* a paragraph with pictures in its runs
Pictured(t, images) == [Para(t) EXCEPT !.images = images]

\* A table of the body.  cells are the texts of the cells of row.cells, row
\* after row; row[c] is the row_index of cell c (from 0); elements[c] names
\* the w:tc element of cell c (row.cells holds a merged cell once for every
\* grid position it spans, each time with the same element); ids[c] is
\* id(cell._element) as the call at hand finds it.
TableOfRows(cells, row, elements) ==
    [type |-> "table", text |-> <<>>, cells |-> cells, row |-> row,
     elements |-> elements, ids |-> elements, images |-> <<>>]

\* a table of one row where every cell is a cell of its own
Table(cells) ==
    TableOfRows(cells, [c \in 1..Len(cells) |-> 0], [c \in 1..Len(cells) |-> c])

\* a table of one row with merged cells
MergedTable(cells, elements) ==
    TableOfRows(cells, [c \in 1..Len(cells) |-> 0], elements)

\* Lines 388-440: the type of an entry follows the pattern that matched; the
\* pattern of a chapter and that of a section have two numbers, so an entry
\* with a subsection number is of type subsection whatever its section.
TocEntry(chapter, section, subsection, title) ==
    [type |-> IF subsection # None THEN "subsection"
              ELSE IF section = 0 THEN "chapter" ELSE "section",
     chapter |-> chapter, section |-> section, subsection |-> subsection,
     title |-> title]

TitlePage == <<"B", "o", "o", "k">>

Chapter1 == <<"1", ".", "0", " ", "A", "b", "c", "d">>

Section11 == <<"1", ".", "1", " ", "E", "f", "g", "h">>

Section12 == <<"1", ".", "2", " ", "E", "f", "g", "h">>

Subsection111 == <<"1", ".", "1", ".", "1", " ", "A", "b", "c", "d">>

Section12Other == <<"1", ".", "2", " ", "M", "n", "o", "p">>

Plain == <<"X", "y">>

Dosage == <<"0", ".", "2", " ", "m", "g", "/", "k", "g", " ",
            "t", "w", "i", "c", "e", " ", "d", "a", "i", "l", "y">>

\* the elements a document body is drawn from
BodyPool ==
    {Para(Chapter1), Para(Section11), Para(Section12), Para(Subsection111),
     Para(Plain)}

\* the entries an expected sequence is drawn from
TocPool ==
    {TocEntry(1, 0, None, Chapter1), TocEntry(1, 1, None, Section11),
     TocEntry(1, 1, 1, Subsection111), TocEntry(1, 2, None, Section12Other)}

\* The state at line 728, before the first element is taken.
InitWith(docs, tocs, files) ==
    /\ body \in docs
    /\ expected_sequence \in {build_toc_structure(t) : t \in tocs}
    /\ exceptions \in {load_exceptions(f) : f \in files}
    /\ toc_end_index = find_toc_end(ParagraphTexts(body))
    /\ pos = 1
    /\ pc = "run"
    /\ expected_index = 0
    /\ found_count = 0
    /\ chapters = <<>>
    /\ current_chapter = None
    /\ current_section = None
    /\ current_subsection = None
    /\ chapter_elements = <<>>
    /\ section_elements = <<>>
    /\ subsection_elements = <<>>
    /\ last = NoLast
    /\ earlier = <<>>
    /\ scan_toc_entries = <<>>
    /\ scan_in_toc = FALSE
    /\ scan_consecutive_non_toc = 0
    /\ scan_para = 1
    /\ split = NoSplit
    /\ written = <<>>

\* Documents open with a title page: paragraph 0 is never part of the stream.
Docs == {<<Para(TitlePage)>> \o b : b \in BoundedSeq(BodyPool, MaxBody)}

\* No exceptions file: load_exceptions returns the empty table (line 289).
Init == InitWith(Docs, BoundedSeq(TocPool, MaxExpected), {<<>>})

Spec == Init /\ [][Next]_vars

(***************************************************************************)
(* Short documents, with a line of running text that starts like a         *)
(* numbering, under every exceptions file.                                 *)
(***************************************************************************)
MaxExcBody == 2

MaxExcExpected == 1

\* "1.2 = 1.1"
Rule12to11 == <<"1", ".", "2", " ", "=", " ", "1", ".", "1">>

\* "1.2 = 1.1.1"
Rule12to111 == <<"1", ".", "2", " ", "=", " ", "1", ".", "1", ".", "1">>

\* "1.1.1 = 1.0"
Rule111to10 == <<"1", ".", "1", ".", "1", " ", "=", " ", "1", ".", "0">>

\* "1.2 = 1": one component
Rule12to1 == <<"1", ".", "2", " ", "=", " ", "1">>

\* "1.2 = 1.1.1.1": four components
Rule12to1111 ==
    <<"1", ".", "2", " ", "=", " ", "1", ".", "1", ".", "1", ".", "1">>

\* "1.2 = 1.1.": a trailing period
Rule12to11Dot == <<"1", ".", "2", " ", "=", " ", "1", ".", "1", ".">>

\* "1.2 = 1..1": a doubled period
Rule12to1DotDot1 == <<"1", ".", "2", " ", "=", " ", "1", ".", ".", "1">>

ExceptionFiles ==
    {<<>>, <<Rule12to11>>, <<Rule12to111>>, <<Rule111to10>>, <<Rule12to1>>,
     <<Rule12to1111>>, <<Rule12to11Dot>>, <<Rule12to1DotDot1>>}

ExcPool ==
    {Para(Section11), Para(Section12), Para(Subsection111), Para(Plain),
     Para(Dosage)}

ExcDocs == {<<Para(TitlePage)>> \o b : b \in BoundedSeq(ExcPool, MaxExcBody)}

InitExc == InitWith(ExcDocs, BoundedSeq(TocPool, MaxExcExpected), ExceptionFiles)

SpecExc == InitExc /\ [][Next]_vars

(***************************************************************************)
(* Inputs in step with the expected sequence: one numbered paragraph per   *)
(* entry, in order, with the entry's numbering.                            *)
(***************************************************************************)
MaxExact == 3

OtherTitle == <<"Z", "z", "z", "z">>

\* a paragraph text with the numbering of entry and the title of entry or,
\* when own is FALSE, another title
HeadingOf(entry, own) ==
    ParsedNum(entry.chapter, entry.section, entry.subsection) \o <<" ">>
    \o (IF own THEN StripNumbering(entry.title) ELSE OtherTitle)

RECURSIVE ExactBody(_, _, _, _)
ExactBody(toc, own, fill, i) ==
    IF i > Len(toc) THEN <<>>
    ELSE <<Para(HeadingOf(toc[i], own))>>
         \o (IF fill[i] THEN <<Para(Plain)>> ELSE <<>>)
         \o ExactBody(toc, own, fill, i + 1)

InitExact ==
    \E toc \in BoundedSeq(TocPool, MaxExact) :
    \E own \in BOOLEAN :
    \E fill \in [1..Len(toc) -> BOOLEAN] :
        InitWith({<<Para(TitlePage)>> \o ExactBody(toc, own, fill, 1)}, {toc}, {<<>>})

SpecExact == InitExact /\ [][Next]_vars

(***************************************************************************)
(* Documents with tables and pictures: a table without header cells; a     *)
(* table of two rows, the first a merged cell that holds two headings on   *)
(* two lines, the second a cell that starts like a numbering without being *)
(* one, under every value of id() for its cells; a paragraph with text and *)
(* two pictures, the second without its part; a paragraph that holds a     *)
(* picture only.                                                           *)
(***************************************************************************)
MaxTabBody == 3

MaxTabExpected == 1

\* "1.1 ....": matches the header-cell pattern of line 650, has no title
CellDots == <<"1", ".", "1", " ", ".", ".", ".", ".">>

\* a cell of two lines, each a header: lines 672-690 split it in two
CellTwoLines == Section11 \o <<"\n">> \o Subsection111

AltText == <<"A", "l", "t">>

Caption == <<"C", "a", "p">>

TabPool ==
    {Para(Chapter1),
     Pictured(Plain, <<Picture(AltText, Caption, TRUE),
                       Picture(AltText, Caption, FALSE)>>),
     Pictured(<<>>, <<Picture(<<>>, <<>>, TRUE)>>)}
    \cup Allocated(Table(<<Plain>>))
    \cup Allocated(TableOfRows(<<CellTwoLines, CellTwoLines, CellDots>>,
                               <<0, 0, 1>>, <<1, 1, 2>>))

TabDocs == {<<Para(TitlePage)>> \o b : b \in BoundedSeq(TabPool, MaxTabBody)}

\* the entries of TocPool that a heading of TabPool names
TabTocPool ==
    {TocEntry(1, 0, None, Chapter1), TocEntry(1, 1, None, Section11),
     TocEntry(1, 1, 1, Subsection111)}

InitTab == InitWith(TabDocs, BoundedSeq(TabTocPool, MaxTabExpected), {<<>>})

SpecTab == InitTab /\ [][Next]_vars

(***************************************************************************)
(* Repeated calls on the same arguments, an exceptions file with a rule    *)
(* that raises and a table of two rows with heading cells included.        *)
(***************************************************************************)
MaxAgainBody == 2

\* a table of two rows: a cell with a heading in the first, a cell with a
\* heading and a cell of text in the second
TwoRowTable ==
    TableOfRows(<<Section11, Subsection111, Plain>>, <<0, 1, 1>>, <<1, 2, 3>>)

\* the headings 1.1 and 1.1.1 come in the cells of the table, 1.2 (which
\* the rule rewrites) in a paragraph
AgainPool == {Para(Section12), Para(Plain)} \cup Allocated(TwoRowTable)

AgainDocs == {<<Para(TitlePage)>> \o b : b \in BoundedSeq(AgainPool, MaxAgainBody)}

\* expected sequences without and with the entries of the headings of the
\* table, in step with it and not
AgainExpected ==
    {<<>>, <<TocEntry(1, 1, None, Section11)>>,
     <<TocEntry(1, 1, 1, Subsection111)>>,
     <<TocEntry(1, 1, None, Section11), TocEntry(1, 1, 1, Subsection111)>>,
     <<TocEntry(1, 0, None, Chapter1), TocEntry(1, 1, 1, Subsection111)>>}

InitAgain ==
    InitWith(AgainDocs, AgainExpected,
             {<<>>, <<Rule12to11Dot>>})

SpecAgain == InitAgain /\ [][NextAgain]_vars

(***************************************************************************)
(* Expected sequences longer than the fuzzy window, with a candidate whose *)
(* numbering is in no entry and whose title is that of an entry, without   *)
(* and with a rule that gives the candidate the numbering of that entry.   *)
(***************************************************************************)
MaxWinBody == 2

MaxWinExpected == 6

WinPool == {Para(Chapter1), Para(Section12), Para(Plain)}

WinTocPool == {TocEntry(1, 0, None, Chapter1), TocEntry(1, 1, None, Section11)}

WinDocs == {<<Para(TitlePage)>> \o b : b \in BoundedSeq(WinPool, MaxWinBody)}

InitWin ==
    InitWith(WinDocs, BoundedSeq(WinTocPool, MaxWinExpected),
             {<<>>, <<Rule12to11>>})

SpecWin == InitWin /\ [][Next]_vars

(***************************************************************************)
(* Headings of every shape, one with section 0 and a subsection number     *)
(* included.                                                               *)
(***************************************************************************)
MaxShapeBody == 3

MaxShapeExpected == 2

Chapter101 == <<"1", ".", "0", ".", "1", " ", "A", "b", "c", "d">>

ShapePool ==
    {Para(Chapter1), Para(Section11), Para(Subsection111), Para(Chapter101),
     Para(Plain)}

ShapeTocPool ==
    {TocEntry(1, 0, None, Chapter1), TocEntry(1, 1, 1, Subsection111),
     TocEntry(1, 0, 1, Chapter101)}

ShapeDocs == {<<Para(TitlePage)>> \o b : b \in BoundedSeq(ShapePool, MaxShapeBody)}

InitShape == InitWith(ShapeDocs, BoundedSeq(ShapeTocPool, MaxShapeExpected), {<<>>})

SpecShape == InitShape /\ [][Next]_vars

(***************************************************************************)
(* Documents that open with a line of the table of contents, followed by a *)
(* run of plain paragraphs and a last paragraph; the expected sequence is  *)
(* extracted from the document (lines 703-710).                            *)
(***************************************************************************)
MaxFill == 51

\* "1.0 Abcd ..... 3"
TocLine ==
    <<"1", ".", "0", " ", "A", "b", "c", "d", " ", ".", ".", ".", ".", ".", " ", "3">>

Fill(n) == [i \in 1..n |-> Para(Plain)]

\* a run of n plain paragraphs, with an empty paragraph after the first one
\* when blank is TRUE
FillWith(n, blank) ==
    IF blank /\ n >= 1
    THEN <<Para(Plain), Para(<<>>)>> \o Fill(n - 1)
    ELSE Fill(n)

\* "1.1 Efgh ..... 4"
TocLine2 ==
    <<"1", ".", "1", " ", "E", "f", "g", "h", " ", ".", ".", ".", ".", ".", " ", "4">>

\* what follows the run: a heading, a plain line, or a further line of the
\* TOC followed by a heading and a plain line
GapTails ==
    {<<Para(Section11)>>, <<Para(Plain)>>,
     <<Para(TocLine2), Para(Chapter1), Para(Plain)>>}

MaxTocBody == 4

\* short documents, with and without lines of the TOC
ShortTocDocs ==
    BoundedSeq({Para(TocLine), Para(Chapter1), Para(Plain)}, MaxTocBody)

GapDocs ==
    {<<Para(TocLine)>> \o FillWith(n, blank) \o tail :
        n \in 0..MaxFill, blank \in BOOLEAN, tail \in GapTails}
    \cup ShortTocDocs

\* One turn of the loop of extract_toc_from_document (lines 364-440), on the
\* paragraph scan_para.  The "break" of line 378 leaves the loop: no paragraph
\* is taken after it.
ScanToc ==
    /\ pc = "toc"
    /\ scan_para <= Len(ParagraphTexts(body))
    /\ \E text \in {Strip(ParagraphTexts(body)[scan_para])} :
       \E leaders \in {HasLeaders(text)} :
       \E count \in {IF leaders THEN 0 ELSE scan_consecutive_non_toc} :
          /\ scan_in_toc' = (scan_in_toc \/ leaders)
          /\ IF scan_in_toc' /\ text # <<>> /\ ~Contains(ThreeDots, text)
             THEN IF ~StartsNumbering(text)
                  THEN /\ scan_consecutive_non_toc' = count + 1
                       /\ scan_para' = IF count + 1 > TocModeGap
                                      THEN Len(ParagraphTexts(body)) + 1
                                      ELSE scan_para + 1
                       /\ scan_toc_entries' = scan_toc_entries
                  ELSE /\ scan_consecutive_non_toc' = 0
                       /\ scan_para' = scan_para + 1
                       /\ scan_toc_entries' = scan_toc_entries \o Collected(text)
             ELSE /\ scan_consecutive_non_toc' = count
                  /\ scan_para' = scan_para + 1
                  /\ scan_toc_entries' = scan_toc_entries
                        \o (IF scan_in_toc' /\ text # <<>> THEN Collected(text)
                            ELSE <<>>)
    /\ UNCHANGED <<split, written, body, exceptions, expected_sequence, toc_end_index, pos,
                   pc, expected_index, found_count, chapters, current_chapter,
                   current_section, current_subsection, chapter_elements,
                   section_elements, subsection_elements, last, earlier>>

\* Lines 703-710: without an expected sequence from the caller, the function
\* takes the one that extract_toc_structure builds from the entries of
\* extract_toc_from_document (lines 541-548), then finds the end of the TOC.
Extracted ==
    /\ pc = "toc"
    /\ scan_para > Len(ParagraphTexts(body))
    /\ expected_sequence' = build_toc_structure(scan_toc_entries)
    /\ toc_end_index' = find_toc_end(ParagraphTexts(body))
    /\ pc' = "run"
    /\ UNCHANGED <<scan, split, written, body, exceptions, pos, expected_index, found_count,
                   chapters, current_chapter, current_section,
                   current_subsection, chapter_elements, section_elements,
                   subsection_elements, last, earlier>>

NextToc == ScanToc \/ Extracted \/ Next

\* The state at line 703, with expected_sequence=None.
InitToc ==
    /\ body \in GapDocs
    /\ expected_sequence = <<>>
    /\ exceptions = <<>>
    /\ toc_end_index = 0
    /\ pos = 1
    /\ pc = "toc"
    /\ expected_index = 0
    /\ found_count = 0
    /\ chapters = <<>>
    /\ current_chapter = None
    /\ current_section = None
    /\ current_subsection = None
    /\ chapter_elements = <<>>
    /\ section_elements = <<>>
    /\ subsection_elements = <<>>
    /\ last = NoLast
    /\ earlier = <<>>
    /\ scan_toc_entries = <<>>
    /\ scan_in_toc = FALSE
    /\ scan_consecutive_non_toc = 0
    /\ scan_para = 1
    /\ split = NoSplit
    /\ written = <<>>

SpecToc == InitToc /\ [][NextToc]_vars

(***************************************************************************)
(* Documents with a first line (a heading with its title, a bare           *)
(* numbering, or plain text) and a run of plain paragraphs after it, one   *)
(* of which may be empty or a heading.                                     *)
(***************************************************************************)
MaxPeekFill == 6

MaxPeekExpected == 2

Bare11 == <<"1", ".", "1">>

PeekDocs ==
    {<<Para(TitlePage), Para(head)>>
        \o [i \in 1..n |-> IF i = k THEN Para(other) ELSE Para(Plain)] :
        head \in {Section11, Bare11, Plain}, n \in 0..MaxPeekFill,
        k \in 0..MaxPeekFill, other \in {<<>>, Section12}}

PeekTocPool == {TocEntry(1, 1, None, Section11), TocEntry(1, 2, None, Section12)}

InitPeek == InitWith(PeekDocs, BoundedSeq(PeekTocPool, MaxPeekExpected), {<<>>})

SpecPeek == InitPeek /\ [][Next]_vars

(***************************************************************************)
(* Expected sequences in which a numbering occurs twice, under two titles. *)
(***************************************************************************)
MaxDupBody == 3

MaxDupExpected == 3

Section11Other == <<"1", ".", "1", " ", "M", "n", "o", "p">>

DupPool == {Para(Section11), Para(Chapter1), Para(Plain)}

DupTocPool ==
    {TocEntry(1, 1, None, Section11), TocEntry(1, 1, None, Section11Other),
     TocEntry(1, 0, None, Chapter1)}

DupDocs == {<<Para(TitlePage)>> \o b : b \in BoundedSeq(DupPool, MaxDupBody)}

InitDup == InitWith(DupDocs, BoundedSeq(DupTocPool, MaxDupExpected), {<<>>})

SpecDup == InitDup /\ [][Next]_vars

(***************************************************************************)
(* Expected sequences with entries whose title, without its numbering, is  *)
(* short ("ab") or empty, and headings with long and with short titles.    *)
(***************************************************************************)
MaxShortBody == 2

MaxShortExpected == 2

Section12Ab == <<"1", ".", "2", " ", "A", "b">>

Bare12 == <<"1", ".", "2">>

Section12Abcd == <<"1", ".", "2", " ", "A", "b", "c", "d">>

Section11Ab == <<"1", ".", "1", " ", "A", "b">>

ShortPool ==
    {Para(Chapter1), Para(Section12Abcd), Para(Section11Ab), Para(Section11),
     Para(Plain)}

ShortTocPool ==
    {TocEntry(1, 2, None, Section12Ab), TocEntry(1, 2, None, Bare12),
     TocEntry(1, 1, None, Section11)}

ShortDocs == {<<Para(TitlePage)>> \o b : b \in BoundedSeq(ShortPool, MaxShortBody)}

InitShort == InitWith(ShortDocs, BoundedSeq(ShortTocPool, MaxShortExpected), {<<>>})

SpecShort == InitShort /\ [][Next]_vars

(***************************************************************************)
(* split_to_md_chapters.py: split_into_sections.  An element is a pair     *)
(* (elem_type, elem): its type and, for a paragraph, its text.             *)
(***************************************************************************)
\* extract_section_number (lines 252-256): the match of ^(\d+)\.(\d+) at the
\* head of the stripped text; without a match the empty text stands for
\* None (a match is never empty, and the caller tests "if section_num")
extract_section_number(paragraph) ==
    With(Strip(paragraph.text), LAMBDA text :
    With(DigitRun(text, 1), LAMBDA d1 :
    With(IF d1 >= 1 /\ d1 + 1 <= Len(text) /\ text[d1 + 1] = "."
         THEN DigitRun(text, d1 + 2) ELSE 0, LAMBDA d2 :
        IF d2 >= 1 THEN SubSeq(text, 1, d1 + 1 + d2) ELSE <<>>)))

\* f"{chapter_num}.0"
ChapterNumber(chapter_num) == FormatInt(chapter_num) \o <<".", "0">>

\* A faulty variant of SplitStep: the heading that opens a section is kept
\* as its title only.
SplitStepTitleOnly ==
    /\ pc = "split"
    /\ split.next <= Len(split.chapter_elements)
    /\ \E element \in {split.chapter_elements[split.next]} :
       \E section_num \in {IF element.type = "paragraph"
                           THEN extract_section_number(element) ELSE <<>>} :
           IF section_num # <<>> /\ section_num # ChapterNumber(split.chapter_num)
           THEN split' =
                    [split EXCEPT
                        !.next = @ + 1,
                        !.sections = IF split.current_section.elements # <<>>
                                     THEN Append(@, split.current_section) ELSE @,
                        !.current_section =
                            [number |-> section_num, title |-> Strip(element.text),
                             elements |-> <<>>]]
           ELSE split' =
                    [split EXCEPT
                        !.next = @ + 1,
                        !.current_section.elements = Append(@, element)]
    /\ UNCHANGED <<scan, written, body, exceptions, expected_sequence, toc_end_index, pos, pc,
                   expected_index, found_count, chapters, current_chapter,
                   current_section, current_subsection, chapter_elements,
                   section_elements, subsection_elements, last, earlier>>

\* One turn of the loop of split_into_sections (lines 541-558).
SplitStep ==
    /\ pc = "split"
    /\ split.next <= Len(split.chapter_elements)
    /\ \E element \in {split.chapter_elements[split.next]} :
       \E section_num \in {IF element.type = "paragraph"
                           THEN extract_section_number(element) ELSE <<>>} :
           IF section_num # <<>> /\ section_num # ChapterNumber(split.chapter_num)
           THEN split' =
                    [split EXCEPT
                        !.next = @ + 1,
                        !.sections = IF split.current_section.elements # <<>>
                                     THEN Append(@, split.current_section) ELSE @,
                        !.current_section =
                            [number |-> section_num, title |-> Strip(element.text),
                             elements |-> <<element>>]]
           ELSE split' =
                    [split EXCEPT
                        !.next = @ + 1,
                        !.current_section.elements = Append(@, element)]
    /\ UNCHANGED <<scan, written, body, exceptions, expected_sequence, toc_end_index, pos, pc,
                   expected_index, found_count, chapters, current_chapter,
                   current_section, current_subsection, chapter_elements,
                   section_elements, subsection_elements, last, earlier>>

\* Lines 560-564: the last section is added when it has elements, and the
\* sections are returned.
SplitReturn ==
    /\ pc = "split"
    /\ split.next > Len(split.chapter_elements)
    /\ split' = [split EXCEPT
                    !.sections = IF split.current_section.elements # <<>>
                                 THEN Append(@, split.current_section) ELSE @]
    /\ pc' = "returned"
    /\ UNCHANGED <<scan, written, body, exceptions, expected_sequence, toc_end_index, pos,
                   expected_index, found_count, chapters, current_chapter,
                   current_section, current_subsection, chapter_elements,
                   section_elements, subsection_elements, last, earlier>>

NextSplit == SplitStep \/ SplitReturn

MaxSplit == 4

SplitPool ==
    {[type |-> "paragraph", text |-> Chapter1],
     [type |-> "paragraph", text |-> Section11],
     [type |-> "paragraph", text |-> Section12],
     [type |-> "paragraph", text |-> Plain],
     [type |-> "table", text |-> <<>>]}

\* The state at line 533, for a call on a chapter of up to MaxSplit elements.
InitSplit ==
    /\ \E elements \in BoundedSeq(SplitPool, MaxSplit) :
       \E chapter_num \in {1, 2} :
           split = [chapter_elements |-> elements, chapter_num |-> chapter_num,
                    chapter_title |-> Chapter1, next |-> 1, sections |-> <<>>,
                    current_section |->
                        [number |-> ChapterNumber(chapter_num),
                         title |-> Chapter1, elements |-> <<>>]]
    /\ pc = "split"
    /\ body = <<>>
    /\ expected_sequence = <<>>
    /\ exceptions = <<>>
    /\ toc_end_index = 0
    /\ pos = 1
    /\ expected_index = 0
    /\ found_count = 0
    /\ chapters = <<>>
    /\ current_chapter = None
    /\ current_section = None
    /\ current_subsection = None
    /\ chapter_elements = <<>>
    /\ section_elements = <<>>
    /\ subsection_elements = <<>>
    /\ last = NoLast
    /\ earlier = <<>>
    /\ scan_toc_entries = <<>>
    /\ scan_in_toc = FALSE
    /\ scan_consecutive_non_toc = 0
    /\ scan_para = 1
    /\ written = <<>>

SpecSplit == InitSplit /\ [][NextSplit]_vars

(***************************************************************************)
(* build_book_json: the title map, the order of the sections, and the      *)
(* section files written with their "previous" and "next" links.  The      *)
(* names of directories and files are made of the numbers and of the slugs *)
(* of the titles, alike where the order is built and where the files are   *)
(* written.                                                                *)
(***************************************************************************)
\* [a-z]
AsciiLowers == {LowerChars[i] : i \in 1..Len(AsciiUpperChars)}

\* [a-z0-9]
IsSlugChar(c) == c \in AsciiLowers \/ IsDigit(c)

\* the length of the match of (\.\d+)* at t[i]
RECURSIVE DotDigitRuns(_, _)
DotDigitRuns(t, i) ==
    IF i <= Len(t) /\ t[i] = "." /\ DigitRun(t, i + 1) > 0
    THEN 1 + DigitRun(t, i + 1) + DotDigitRuns(t, i + 1 + DigitRun(t, i + 1))
    ELSE 0

\* re.sub(r"^\d+(\.\d+)*\s*", "", t) (lines 38 and 54)
StripNumberPrefix(t) ==
    With(DigitRun(t, 1), LAMBDA d :
        IF d = 0 THEN t
        ELSE With(d + DotDigitRuns(t, d + 1), LAMBDA n :
                 From(t, n + SpaceRun(t, n + 1) + 1)))

\* re.sub(r"[^a-z0-9]+", "_", t) (line 41): of each run of other characters
\* the first stays, as an underscore
Underscored(t) ==
    LET marked == [i \in 1..Len(t) |->
                      IF IsSlugChar(t[i]) THEN t[i]
                      ELSE IF i > 1 /\ ~IsSlugChar(t[i - 1]) THEN "" ELSE "_"]
    IN  SelectSeq(marked, LAMBDA c : c # "")

\* t.strip("_") (line 42)
StripUnderscores(t) ==
    LET kept == {i \in 1..Len(t) : t[i] # "_"}
    IN  IF kept = {} THEN <<>> ELSE SubSeq(t, Min(kept), Max(kept))

Untitled == <<"u", "n", "t", "i", "t", "l", "e", "d">>

\* slugify (lines 30-43)
slugify(text) ==
    IF text = <<>> THEN Untitled
    ELSE With(StripUnderscores(Underscored(Strip(Lowercase(StripNumberPrefix(text))))),
              LAMBDA slug : IF slug = <<>> THEN Untitled ELSE slug)

\* f"{n:02d}"
TwoDigits(n) == IF n < 10 THEN <<"0">> \o FormatInt(n) ELSE FormatInt(n)

\* Lines 1856-1867: the key of an entry in the title map; the key
\* (chapter, "chapter") of a chapter is the tuple of its number alone
TitleKey(entry) ==
    IF entry.subsection # None
    THEN <<entry.chapter, entry.section, entry.subsection>>
    ELSE IF entry.section = 0 THEN <<entry.chapter>>
    ELSE <<entry.chapter, entry.section>>

\* Lines 1854-1869: the title map of an expected sequence: of the entries
\* with one key the last gives the title
build_title_map(seq) ==
    [key \in {TitleKey(seq[i]) : i \in DOMAIN seq} |->
        seq[Max({i \in DOMAIN seq : TitleKey(seq[i]) = key})].title]

\* title_map.get(key, default)
TitleOf(title_map, key, default) ==
    IF key \in DOMAIN title_map THEN title_map[key] ELSE default

\* Lines 181-183 and 1932-1936: the title of a chapter, f"Chapter {n}" when
\* the map has none
ChapterTitle(title_map, chapter_num) ==
    TitleOf(title_map, <<chapter_num>>,
            <<"C", "h", "a", "p", "t", "e", "r", " ">> \o FormatInt(chapter_num))

\* f"{chapter_num:02d}_{chapter_slug}" (lines 183 and 1936)
ChapterDirName(title_map, chapter_num) ==
    TwoDigits(chapter_num) \o <<"_">> \o slugify(ChapterTitle(title_map, chapter_num))

\* "00_intro" (lines 194 and 2005)
IntroFileName == <<"0", "0", "_", "i", "n", "t", "r", "o">>

\* f"{section_num:02d}_{section_slug}" (lines 204-206 and 2043-2045), the
\* title f"{chapter_num}.{section_num}" when the map has none
SectionFileName(title_map, chapter_num, section_num) ==
    TwoDigits(section_num) \o <<"_">>
    \o slugify(TitleOf(title_map, <<chapter_num, section_num>>,
                       ParsedNum(chapter_num, section_num, None)))

\* f"{section_num:02d}_{subsection_num:02d}_{subsection_slug}" (lines 226-233
\* and 2144-2151)
SubsectionFileName(title_map, chapter_num, section_num, subsection_num) ==
    TwoDigits(section_num) \o <<"_">> \o TwoDigits(subsection_num) \o <<"_">>
    \o slugify(TitleOf(title_map, <<chapter_num, section_num, subsection_num>>,
                       ParsedNum(chapter_num, section_num, subsection_num)))

\* an entry of the document order (lines 188-246)
OrderEntry(title_map, chapter_num, section_num, subsection_num, file_name) ==
    [chapter_num |-> chapter_num, section_num |-> section_num,
     subsection_num |-> subsection_num,
     dir_name |-> ChapterDirName(title_map, chapter_num),
     file_name |-> file_name]

\* Lines 204-246: a section, then its subsections.
SectionOrder(chs, title_map, chapter_num, section_num) ==
    With(Sorted(chs[chapter_num][section_num]), LAMBDA subsections :
        <<OrderEntry(title_map, chapter_num, section_num, None,
                     SectionFileName(title_map, chapter_num, section_num))>>
        \o [k \in 1..Len(subsections) |->
               OrderEntry(title_map, chapter_num, section_num, subsections[k],
                          SubsectionFileName(title_map, chapter_num, section_num,
                                             subsections[k]))])

\* Lines 176-246: the intro of a chapter, then its sections.
ChapterOrder(chs, title_map, chapter_num) ==
    With(Sorted(DOMAIN chs[chapter_num]), LAMBDA sections :
        <<OrderEntry(title_map, chapter_num, 0, None, IntroFileName)>>
        \o Extended([j \in 1..Len(sections) |->
                        SectionOrder(chs, title_map, chapter_num, sections[j])], 1))

\* build_document_order (lines 167-249)
build_document_order(chs, title_map) ==
    With(Sorted(DOMAIN chs), LAMBDA chapter_nums :
        Extended([i \in 1..Len(chapter_nums) |->
                     ChapterOrder(chs, title_map, chapter_nums[i])], 1))

\* config["canonical_id"]
book_id == <<"b", "k">>

\* f"{book_id}/{dir_name}/{file_name}" (lines 257, 1887 and 1891)
DocId(dir_name, file_name) ==
    book_id \o <<"/">> \o dir_name \o <<"/">> \o file_name

\* position_lookup.get(key, 0) (lines 1895-1898): the last entry of the order
\* with the key, the first position without one.  Positions count from 1.
PositionLookup(doc_order, chapter_num, section_num, subsection_num) ==
    LET at == {i \in DOMAIN doc_order :
                   /\ doc_order[i].chapter_num = chapter_num
                   /\ doc_order[i].section_num = section_num
                   /\ doc_order[i].subsection_num = subsection_num}
    IN  IF at = {} THEN 1 ELSE CHOOSE i \in at : \A j \in at : j <= i

\* get_prev_next_ids (lines 1880-1893) and the links build_section_json makes
\* of its result (lines 258-262): no link for an id that is None.
get_prev_next_ids(doc_order, position) ==
    (IF position > 1
     THEN <<[type |-> "previous",
             target |-> DocId(doc_order[position - 1].dir_name,
                              doc_order[position - 1].file_name)]>>
     ELSE <<>>)
    \o (IF position < Len(doc_order)
        THEN <<[type |-> "next",
                target |-> DocId(doc_order[position + 1].dir_name,
                                 doc_order[position + 1].file_name)]>>
        ELSE <<>>)

\* build_section_json (lines 252-271) on the result of get_prev_next_ids for
\* the position of the key: the id of the file and its links
build_section_json(doc_order, title_map, chapter_num, section_num, subsection_num, file_name) ==
    [id |-> DocId(ChapterDirName(title_map, chapter_num), file_name),
     links |-> get_prev_next_ids(doc_order,
                   PositionLookup(doc_order, chapter_num, section_num, subsection_num))]

\* Lines 2038-2240: the file of a section, then the files of its subsections.
SectionFiles(doc_order, chs, title_map, chapter_num, section_num) ==
    With(Sorted(chs[chapter_num][section_num]), LAMBDA subsections :
        <<build_section_json(doc_order, title_map, chapter_num, section_num, None,
                             SectionFileName(title_map, chapter_num, section_num))>>
        \o [k \in 1..Len(subsections) |->
               build_section_json(doc_order, title_map, chapter_num, section_num,
                                  subsections[k],
                                  SubsectionFileName(title_map, chapter_num,
                                                     section_num, subsections[k]))])

\* extract_and_save_image (lines 1527-1616) for the picture of an element:
\* every path through it ends at the return of line 1616, with the pair of
\* the file name and the logical path.
extract_and_save_image(element) == [saved |-> TRUE, image |-> element.at]

\* Lines 1950-2001: intro_content.  A paragraph, a table and a table cell of
\* the chapter's own elements give an item each, a picture gives one when
\* extract_and_save_image has handed back a result (line 1976).
IntroContent(ch_elements, chapter_num) ==
    IF chapter_num \in DOMAIN ch_elements
    THEN SelectSeq(ch_elements[chapter_num], LAMBDA element :
             \/ element.type \in {"paragraph", "table", "table_cell"}
             \/ element.type = "image" /\ extract_and_save_image(element).saved)
    ELSE <<>>

\* Lines 1930-2240: the files of a chapter.  The intro is written only when
\* intro_content is not empty (line 2004).
ChapterFiles(doc_order, chs, title_map, ch_elements, chapter_num) ==
    With(Sorted(DOMAIN chs[chapter_num]), LAMBDA sections :
        (IF IntroContent(ch_elements, chapter_num) # <<>>
         THEN <<build_section_json(doc_order, title_map, chapter_num, 0, None,
                                   IntroFileName)>>
         ELSE <<>>)
        \o Extended([j \in 1..Len(sections) |->
                        SectionFiles(doc_order, chs, title_map, chapter_num,
                                     sections[j])], 1))

\* open(path, "w") (lines 2023, 2121 and 2235): a file written under the
\* path of a file written before it takes its place.  The files on disk after
\* the writes of a log, each with what was written to it last.
OnDisk(log) ==
    With(Sorted({i \in DOMAIN log : \A j \in DOMAIN log : j > i => log[j].id # log[i].id}),
         LAMBDA kept : [k \in 1..Len(kept) |-> log[kept[k]]])

\* build_book_json after the parse (lines 1853-2240): the title map and the
\* order are built and the section files are written, chapter by chapter.
WriteSections ==
    /\ pc = "done"
    /\ \E title_map \in {build_title_map(expected_sequence)} :
       \E doc_order \in {build_document_order(chapters, title_map)} :
       \E chapter_nums \in {Sorted(DOMAIN chapters)} :
           written' = OnDisk(Extended([i \in 1..Len(chapter_nums) |->
                                          ChapterFiles(doc_order, chapters, title_map,
                                                       chapter_elements,
                                                       chapter_nums[i])], 1))
    /\ pc' = "written"
    /\ UNCHANGED <<scan, split, body, exceptions, expected_sequence, toc_end_index, pos,
                   expected_index, found_count, chapters, current_chapter,
                   current_section, current_subsection, chapter_elements,
                   section_elements, subsection_elements, last, earlier>>

NextBook == ScanToc \/ Extracted \/ Heading \/ Content \/ Return \/ WriteSections

MaxBookBody == 4

Section21 == <<"2", ".", "1", " ", "E", "f", "g", "h">>

TocLine21 ==
    <<"2", ".", "1", " ", "E", "f", "g", "h", " ", ".", ".", ".", ".", ".", " ", "5">>

\* documents whose table of contents names chapter 1 and the sections 1.1
\* and 2.1, and whose body has some of their headings, text and a picture
BookDocs ==
    {<<Para(TocLine), Para(TocLine2), Para(TocLine21)>> \o b :
        b \in BoundedSeq({Para(Chapter1), Para(Section11), Para(Section21),
                          Para(Plain),
                          Pictured(<<>>, <<Picture(AltText, Caption, TRUE)>>)},
                         MaxBookBody)}

\* The state at line 1811: the document is loaded, nothing is extracted.
InitBook ==
    /\ body \in BookDocs
    /\ expected_sequence = <<>>
    /\ exceptions = <<>>
    /\ toc_end_index = 0
    /\ pos = 1
    /\ pc = "toc"
    /\ expected_index = 0
    /\ found_count = 0
    /\ chapters = <<>>
    /\ current_chapter = None
    /\ current_section = None
    /\ current_subsection = None
    /\ chapter_elements = <<>>
    /\ section_elements = <<>>
    /\ subsection_elements = <<>>
    /\ last = NoLast
    /\ earlier = <<>>
    /\ scan_toc_entries = <<>>
    /\ scan_in_toc = FALSE
    /\ scan_consecutive_non_toc = 0
    /\ scan_para = 1
    /\ split = NoSplit
    /\ written = <<>>

SpecBook == InitBook /\ [][NextBook]_vars

(***************************************************************************)
(* Properties of the alignment.                                            *)
(*                                                                         *)
(* last records what the loop did with the element it took last: kind is   *)
(* "heading" (confirmed), "rejected", "raised" or "content"; cursor is the *)
(* value of expected_index when the element was taken; parsed is the       *)
(* numbering read from the text, numbering the one after the exception     *)
(* table, key the numbering the heading was stored under.                  *)
(***************************************************************************)
\* the node a numbering names: a chapter when the section is 0
NodeId(n) ==
    IF n[2] = 0 THEN <<n[1]>>
    ELSE IF n[3] = None THEN <<n[1], n[2]>> ELSE <<n[1], n[2], n[3]>>

NodeIn(id, ce, se, sse) ==
    IF Len(id) = 1 THEN id[1] \in DOMAIN ce
    ELSE IF Len(id) = 2 THEN id \in DOMAIN se ELSE id \in DOMAIN sse

HasNode(id) == NodeIn(id, chapter_elements, section_elements, subsection_elements)

ElementsOf(id) ==
    IF Len(id) = 1 THEN chapter_elements[id[1]]
    ELSE IF Len(id) = 2 THEN section_elements[id] ELSE subsection_elements[id]

\* the node the pointers name, <<>> when no chapter is open
OpenNode ==
    IF current_chapter = None THEN <<>>
    ELSE IF current_subsection # None
    THEN <<current_chapter, current_section, current_subsection>>
    ELSE IF current_section # None THEN <<current_chapter, current_section>>
    ELSE <<current_chapter>>

IsPrefix(a, b) == Len(a) <= Len(b) /\ SubSeq(b, 1, Len(a)) = a

Settled == last.kind \in {"heading", "rejected", "raised"}

\* C1: a candidate is confirmed as a heading only through the exact match
\* with the entry at the cursor, a fuzzy title match within the window from
\* the cursor, or the orphan test; this for every expected sequence, the
\* empty one and a cursor at the end of the sequence included.
C1_ConfirmedOnlyByACase ==
    last.kind = "heading" =>
        /\ last.cursor < Len(expected_sequence)
        /\ \/ NumberingMatch(expected_sequence[last.cursor + 1], last.numbering[1],
                             last.numbering[2], last.numbering[3])
           \/ FuzzyHits(expected_sequence, last.cursor, last.full_text) # {}
           \/ FoundInToc(expected_sequence, last.numbering[1], last.numbering[2],
                         last.numbering[3], last.full_text)

\* C2: with an empty expected sequence no heading is confirmed and the
\* hierarchy and the three element maps stay empty.
C2_EmptySequenceConfirmsNothing ==
    expected_sequence = <<>> =>
        /\ last.kind # "heading"
        /\ found_count = 0
        /\ chapters = <<>>
        /\ chapter_elements = <<>>
        /\ section_elements = <<>>
        /\ subsection_elements = <<>>

\* C3: a body candidate that the false-positive filter rejects is never
\* confirmed as a heading.
C3_FilteredNeverConfirmed ==
    last.kind = "heading" =>
        ~is_toc_false_positive(last.full_text, last.numbering[1])

\* C4: the element of a rejected candidate is appended as content to the
\* node that is open when it is rejected.
C4_RejectedBecomesContent ==
    (last.kind = "rejected" /\ OpenNode # <<>> /\ HasNode(OpenNode)) =>
        \E i \in DOMAIN ElementsOf(OpenNode) : ElementsOf(OpenNode)[i].at = last.at

\* C5: the cursor never decreases, and it keeps its value across an orphan
\* confirmation, a rejection and an element that is no candidate.
C5_CursorNeverDecreases ==
    [][/\ expected_index' >= expected_index
       /\ (pos' = pos + 1 /\ (last'.kind \in {"rejected", "content"}
                              \/ last'.path = "orphan"))
              => expected_index' = expected_index]_vars

\* an orphan was confirmed after the cursor had moved, and the cursor stayed
C5_OrphanAfterAdvance ==
    /\ last.kind = "heading" /\ last.path = "orphan"
    /\ last.cursor > 0
    /\ expected_index = last.cursor

\* C6: the cursor stays within 0 .. len(expected_sequence).
C6_CursorInRange ==
    0 <= expected_index /\ expected_index <= Len(expected_sequence)

\* a relocation jumped over an entry onto the last entry of the sequence
C6_RelocatedOntoLastEntry ==
    /\ last.kind = "heading" /\ last.path = "fuzzy"
    /\ expected_index > last.cursor + 1
    /\ expected_index = Len(expected_sequence)

\* the numberings, after the exception table, of the candidates of the stream
CandidateNumberings ==
    LET all == [i \in 1..Len(Stream) |->
                   Candidate(body, exceptions, expected_sequence, 0, Stream[i])]
        cs  == SelectSeq(all, LAMBDA c : c.kind # "content")
    IN  [i \in 1..Len(cs) |-> IF cs[i].kind = "raised" THEN <<>> ELSE cs[i].numbering]

EntryNumbering(entry) == <<entry.chapter, entry.section, entry.subsection>>

\* the i-th candidate of the stream has the numbering of the i-th entry
InStep ==
    CandidateNumberings =
        [i \in 1..Len(expected_sequence) |-> EntryNumbering(expected_sequence[i])]

\* C7: when the i-th candidate has the numbering of the i-th entry of the
\* expected sequence (equal numberings may repeat), every candidate is
\* confirmed by the exact match, each moves the cursor by one, and the run
\* ends with the cursor at len(expected_sequence).
C7_InStepAllExact ==
    InStep =>
        /\ Settled => /\ last.kind = "heading" /\ last.path = "exact"
                      /\ expected_index = last.cursor + 1
                      /\ last.key = last.numbering
        /\ pc # "error"
        /\ pc = "done" => /\ expected_index = Len(expected_sequence)
                          /\ found_count = Len(expected_sequence)

\* a run in step with a sequence that repeats a numbering has ended
C7_RepeatedNumberingDone ==
    /\ InStep /\ pc = "done"
    /\ Len(expected_sequence) >= 2
    /\ EntryNumbering(expected_sequence[1]) = EntryNumbering(expected_sequence[2])
    /\ expected_index = Len(expected_sequence)
    /\ last.path = "exact"

\* a step of the loop that confirms a heading by fuzzy relocation
FuzzyStep == pos' = pos + 1 /\ last'.kind = "heading" /\ last'.path = "fuzzy"

\* the relocated heading is stored under the numbering of the entry matched
AdoptsEntry ==
    /\ last'.key = EntryNumbering(expected_sequence[expected_index'])
    /\ OpenNode' = NodeId(last'.key)
    /\ NodeIn(NodeId(last'.key), chapter_elements', section_elements',
              subsection_elements')
    /\ LET es == (ElementsOf(NodeId(last.key)))'
       IN  es # <<>> /\ es[Len(es)].at = last'.at

\* the step creates the node of the numbering parsed from the text
CreatesParsedNode ==
    /\ ~HasNode(NodeId(last'.numbering))
    /\ NodeIn(NodeId(last'.numbering), chapter_elements', section_elements',
              subsection_elements')

\* C8 as stated: a fuzzy relocation adopts the numbering of the entry matched
\* (node and pointers carry it) and creates no node for the parsed numbering.
C8_NoNodeForParsedNumbering ==
    [][FuzzyStep => (AdoptsEntry /\ ~CreatesParsedNode)]_vars

\* C8: a fuzzy relocation adopts the numbering of the entry matched: the
\* heading is stored under it and the pointers name it.  A node for the
\* parsed numbering is created only when that node lies on the path to the
\* adopted node (the node itself, or its chapter or section), and a parsed
\* node other than the adopted one receives no element.
C8_RelocationAdoptsEntry ==
    [][FuzzyStep =>
        /\ AdoptsEntry
        /\ CreatesParsedNode => IsPrefix(NodeId(last'.numbering), NodeId(last'.key))
        /\ (NodeId(last'.numbering) # NodeId(last'.key)
            /\ NodeIn(NodeId(last'.numbering), chapter_elements',
                      section_elements', subsection_elements'))
           => (ElementsOf(NodeId(last.numbering)))' =
                  IF HasNode(NodeId(last'.numbering))
                  THEN ElementsOf(NodeId(last'.numbering)) ELSE <<>>]_vars

\* a relocated heading whose parsed numbering has no node
C8_RelocatedWithoutParsedNode ==
    /\ last.kind = "heading" /\ last.path = "fuzzy"
    /\ NodeId(last.numbering) # NodeId(last.key)
    /\ HasNode(NodeId(last.key))
    /\ ~HasNode(NodeId(last.numbering))

\* the numbering a well-formed replacement value names
RuleTarget(value) ==
    LET m == NumberingAt(value, 1) IN <<m.c, m.s, m.k>>

WellFormed(value) ==
    LET m == NumberingAt(value, 1) IN m.n \in {2, 3} /\ m.end = Len(value)

RuleKey == ParsedNum(last.parsed[1], last.parsed[2], last.parsed[3])

\* C9: a rule wrong -> correct of the exception table is applied before the
\* alignment: a candidate parsed as wrong is aligned and stored exactly as a
\* candidate parsed as correct would be; without a rule for its numbering a
\* candidate keeps the numbering parsed.
C9_ExceptionsBeforeAlignment ==
    (last.kind \in {"heading", "rejected"}
     /\ (RuleKey \in DOMAIN exceptions => WellFormed(exceptions[RuleKey]))) =>
        LET t == IF RuleKey \in DOMAIN exceptions
                 THEN RuleTarget(exceptions[RuleKey]) ELSE last.parsed
            a == Align(expected_sequence, last.cursor, t[1], t[2], t[3],
                       last.full_text)
        IN  /\ last.numbering = t
            /\ last.path = a.path
            /\ (last.cursor < Len(expected_sequence)
                /\ NumberingMatch(expected_sequence[last.cursor + 1], t[1], t[2], t[3]))
                   => last.path = "exact" /\ last.key = t
            /\ last.kind = "heading" =>
                   /\ last.key = <<a.chapter, a.section, a.subsection>>
                   /\ expected_index = a.expected_index
                   /\ OpenNode = NodeId(last.key)
                   /\ HasNode(OpenNode)

\* a rule changed the numbering of a candidate, which then matched the entry
\* at the cursor
C9_RuleThenExact ==
    /\ last.kind = "heading" /\ last.path = "exact"
    /\ RuleKey \in DOMAIN exceptions
    /\ last.numbering # last.parsed
    /\ last.numbering = RuleTarget(exceptions[RuleKey])
    /\ HasNode(NodeId(last.numbering))

Malformed(value) ==
    LET parts == Split(value, ".")
    IN  \/ Len(parts) = 1
        \/ Len(parts) >= 4
        \/ \E i \in 1..Len(parts) : parts[i] = <<>>

\* C10: a replacement value with one component, with four or more, or with
\* an empty component leaves the numbering parsed unchanged and raises no
\* error.
C10_MalformedRuleIgnored ==
    (Settled /\ RuleKey \in DOMAIN exceptions /\ Malformed(exceptions[RuleKey])) =>
        /\ last.kind # "raised"
        /\ pc # "error"
        /\ last.numbering = last.parsed

(***************************************************************************)
(* Properties of the node structure.                                       *)
(***************************************************************************)
\* the elements of a list are in strictly increasing stream position
Ordered(es) == \A i, j \in DOMAIN es : i < j => es[i].at < es[j].at

\* C11: within every content list (of a chapter, a section or a subsection)
\* the elements appear in strictly increasing stream position, whatever the
\* interleaving of confirmed headings, rejected candidates and elements
\* without numbering.
C11_ContentInStreamOrder ==
    /\ \A c \in DOMAIN chapter_elements : Ordered(chapter_elements[c])
    /\ \A k \in DOMAIN section_elements : Ordered(section_elements[k])
    /\ \A k \in DOMAIN subsection_elements : Ordered(subsection_elements[k])

\* an element without numbering was appended to a node right after a
\* candidate was rejected: the list skips the position of the rejected one
C11_AppendedAfterRejection ==
    /\ last.kind = "content" /\ OpenNode # <<>> /\ HasNode(OpenNode)
    /\ LET es == ElementsOf(OpenNode)
       IN  /\ Len(es) >= 2
           /\ es[Len(es)].at = last.at
           /\ es[Len(es) - 1].at = last.at - 2

\* a step of the loop that rejects a candidate
RejectStep == pos' = pos + 1 /\ last'.kind = "rejected"

\* C12: rejecting a candidate changes nothing in the state of the aligner:
\* the cursor, the three pointers, the hierarchy, the sets of node keys and
\* every content list are the same before and after the step.
C12_RejectionChangesNothing ==
    [][RejectStep =>
        /\ expected_index' = expected_index
        /\ current_chapter' = current_chapter
        /\ current_section' = current_section
        /\ current_subsection' = current_subsection
        /\ chapters' = chapters
        /\ DOMAIN chapter_elements' = DOMAIN chapter_elements
        /\ DOMAIN section_elements' = DOMAIN section_elements
        /\ DOMAIN subsection_elements' = DOMAIN subsection_elements
        /\ chapter_elements' = chapter_elements
        /\ section_elements' = section_elements
        /\ subsection_elements' = subsection_elements
        /\ found_count' = found_count]_vars

\* a candidate was rejected while a section was open and the cursor had moved
C12_RejectedInOpenSection ==
    /\ last.kind = "rejected"
    /\ Len(OpenNode) >= 2 /\ HasNode(OpenNode)
    /\ ElementsOf(OpenNode) # <<>>
    /\ expected_index > 0

\* a step of the loop on an element that is no candidate
ContentStep == pos' = pos + 1 /\ last'.kind = "content"

\* the number of places in the three maps that hold the element of position p
Occurrences(p, ce, se, sse) ==
    Cardinality({<<c, i>> \in (DOMAIN ce) \X (1..p) :
                    i \in DOMAIN ce[c] /\ ce[c][i].at = p})
    + Cardinality({<<k, i>> \in (DOMAIN se) \X (1..p) :
                      i \in DOMAIN se[k] /\ se[k][i].at = p})
    + Cardinality({<<k, i>> \in (DOMAIN sse) \X (1..p) :
                      i \in DOMAIN sse[k] /\ sse[k][i].at = p})

\* the three maps are equal before and after the step, except at node id
SameExceptAt(id) ==
    /\ DOMAIN chapter_elements' = DOMAIN chapter_elements
    /\ DOMAIN section_elements' = DOMAIN section_elements
    /\ DOMAIN subsection_elements' = DOMAIN subsection_elements
    /\ \A c \in DOMAIN chapter_elements :
           <<c>> # id => chapter_elements'[c] = chapter_elements[c]
    /\ \A k \in DOMAIN section_elements :
           k # id => section_elements'[k] = section_elements[k]
    /\ \A k \in DOMAIN subsection_elements :
           k # id => subsection_elements'[k] = subsection_elements[k]

\* C13: an element that is no candidate (text without numbering, table) is
\* appended exactly once, at the end of the list of the deepest node the
\* pointers name (subsection, else section, else chapter), and no other list
\* changes; taken before any heading is confirmed, it is stored in no node.
C13_ContentToDeepestOpenNode ==
    [][ContentStep =>
        IF OpenNode = <<>>
        THEN /\ SameExceptAt(<<>>)
             /\ Occurrences(pos, chapter_elements', section_elements',
                            subsection_elements') = 0
        ELSE /\ HasNode(OpenNode)
             /\ (ElementsOf(OpenNode))' =
                    Append(ElementsOf(OpenNode),
                           [type |-> Stream[pos].type, at |-> pos])
             /\ SameExceptAt(OpenNode)
             /\ Occurrences(pos, chapter_elements, section_elements,
                            subsection_elements) = 0
             /\ Occurrences(pos, chapter_elements', section_elements',
                            subsection_elements') = 1]_vars

\* a table was appended to the open subsection, in a document whose first
\* element, taken before any heading, is stored nowhere
C13_TableIntoSubsection ==
    /\ last.kind = "content" /\ last.at > 1
    /\ Len(OpenNode) = 3 /\ HasNode(OpenNode)
    /\ LET es == ElementsOf(OpenNode)
       IN  es[Len(es)] = [type |-> "table", at |-> last.at]
    /\ HasNode(<<current_chapter>>)
    /\ HasNode(<<current_chapter, current_section>>)
    /\ Candidate(body, exceptions, expected_sequence, 0, Stream[1]).kind = "content"
    /\ Occurrences(1, chapter_elements, section_elements, subsection_elements) = 0

SameDocumentOtherStream ==
    /\ pc = "done" /\ Len(earlier) >= 1
    /\ earlier[1].result.pc = "done"
    /\ earlier[1].stream # Stream
    /\ earlier[1].result # Result

\* a step of the loop that confirms a heading
ConfirmStep == pos' = pos + 1 /\ last'.kind = "heading"

\* A heading was confirmed under the key of node id: the node exists and its
\* list is not empty (a node made as the chapter or section of a deeper
\* heading starts empty, and only elements taken after a heading of its own
\* reach it).
ConfirmedBefore(id) == HasNode(id) /\ ElementsOf(id) # <<>>

\* C15: when a heading is confirmed under a key confirmed before, by
\* whatever case, the node is neither reset nor replaced: no key is added or
\* removed, the heading's element is appended to the node's list after the
\* elements it held, and every other list is unchanged.
C15_ConfirmedAgainMerges ==
    [][(ConfirmStep /\ ConfirmedBefore(NodeId(last'.key))) =>
        /\ chapters' = chapters
        /\ SameExceptAt(NodeId(last'.key))
        /\ \E type \in {"paragraph", "table_cell"} :
               (ElementsOf(NodeId(last.key)))' =
                   Append(ElementsOf(NodeId(last'.key)),
                          [type |-> type, at |-> pos])]_vars

\* a key confirmed by the exact match is confirmed again later as an orphan:
\* one list holds the first heading, what followed it and the second heading
C15_ExactThenOrphan ==
    /\ last.kind = "heading" /\ last.path = "orphan"
    /\ last.cursor > 0
    /\ NumberingMatch(expected_sequence[1], last.key[1], last.key[2], last.key[3])
    /\ HasNode(NodeId(last.key))
    /\ LET es == ElementsOf(NodeId(last.key))
       IN  /\ Len(es) = 3
           /\ es[1].at = 1 /\ es[1].type = "paragraph"
           /\ es[2].at = 2
           /\ es[3].at = last.at

\* every key of map old is a key of map new, with its old list as a prefix
Grows(old, new) ==
    \A k \in DOMAIN old : k \in DOMAIN new /\ IsPrefix(old[k], new[k])

\* C16: the node structure only grows: whatever element the loop takes, every
\* key of chapters and of the three element maps is kept, and every list
\* keeps what it held as a prefix (elements are appended at the end, never
\* removed or reordered).
C16_StructureOnlyGrows ==
    [][/\ Grows(chapter_elements, chapter_elements')
       /\ Grows(section_elements, section_elements')
       /\ Grows(subsection_elements, subsection_elements')
       /\ \A c \in DOMAIN chapters :
              /\ c \in DOMAIN chapters'
              /\ \A sec \in DOMAIN chapters[c] :
                     /\ sec \in DOMAIN chapters'[c]
                     /\ chapters[c][sec] \subseteq chapters'[c][sec]]_vars

\* the run has ended with two sections, a subsection, and a list that grew
\* after its node was made
C16_GrownStructure ==
    /\ pc = "done"
    /\ Cardinality(DOMAIN section_elements) >= 2
    /\ subsection_elements # <<>>
    /\ \E k \in DOMAIN section_elements : Len(section_elements[k]) >= 2

\* the three pointers
Pointers == <<current_chapter, current_section, current_subsection>>

\* C17: a confirmed chapter heading leaves the section and subsection
\* pointers unset, a confirmed section heading leaves the subsection pointer
\* unset and the section pointer on that section, a confirmed subsection
\* heading leaves the three pointers on its key; no other step (an element
\* without numbering, a rejected candidate) changes a pointer.
C17_PointersFollowHeadings ==
    [][IF ConfirmStep
       THEN Pointers' =
                IF last'.key[2] = 0 THEN <<last'.key[1], None, None>>
                ELSE IF last'.key[3] = None
                THEN <<last'.key[1], last'.key[2], None>>
                ELSE last'.key
       ELSE Pointers' = Pointers]_vars

\* a chapter heading was confirmed right after a subsection heading: the
\* pointers the subsection had set are cleared
C17_ChapterAfterSubsection ==
    /\ last.kind = "heading" /\ last.key[2] = 0 /\ last.at = 2
    /\ \E k \in DOMAIN subsection_elements :
           subsection_elements[k] = <<[type |-> "paragraph", at |-> 1]>>
    /\ Pointers = <<last.key[1], None, None>>

\* the title of the candidate taken last matches the title of entry j (from 0)
TitleMatches(j) ==
    FuzzyTitleMatch(TitleOnly(last.full_text),
                    StripNumbering(expected_sequence[j + 1].title_normalized))

\* C18: a fuzzy relocation adopts an entry of the window of 5 entries that
\* starts at the cursor (indices cursor .. cursor + 4, within the sequence),
\* the one of lowest index whose title matches, and leaves the cursor one
\* past it: the cursor advances by 1 at least and by 5 at most.
C18_RelocationWithinWindow ==
    (last.kind = "heading" /\ last.path = "fuzzy") =>
        LET adopted == expected_index - 1
        IN  /\ last.cursor <= adopted /\ adopted <= last.cursor + 4
            /\ adopted < Len(expected_sequence)
            /\ last.key = EntryNumbering(expected_sequence[adopted + 1])
            /\ TitleMatches(adopted)
            /\ \A j \in last.cursor..(adopted - 1) : ~TitleMatches(j)
            /\ expected_index - last.cursor \in 1..5

\* a relocation onto the last entry of the window, five entries on, while
\* the entry after the window matches the title as well
C18_MatchBeyondWindow ==
    /\ last.kind = "heading" /\ last.path = "fuzzy"
    /\ expected_index = last.cursor + 5
    /\ expected_index < Len(expected_sequence)
    /\ TitleMatches(expected_index)
    /\ last.key = EntryNumbering(expected_sequence[expected_index])

\* the entries (from 0) that carry the numbering of the candidate taken last
SameNumbering ==
    {j \in 0..(Len(expected_sequence) - 1) :
        NumberingMatch(expected_sequence[j + 1], last.numbering[1],
                       last.numbering[2], last.numbering[3])}

\* C19: a candidate confirmed as an orphan is stored under its own numbering,
\* the one parsed or the one a rule of the exception table gives it, and the
\* cursor stays where it was; the entry that carries the numbering and a
\* matching title lies anywhere in the sequence, before the cursor included.
C19_OrphanKeepsNumbering ==
    (last.kind = "heading" /\ last.path = "orphan") =>
        /\ last.numbering = IF RuleKey \in DOMAIN exceptions
                            THEN RuleTarget(exceptions[RuleKey]) ELSE last.parsed
        /\ last.key = last.numbering
        /\ OpenNode = NodeId(last.numbering)
        /\ HasNode(OpenNode)
        /\ LET es == ElementsOf(OpenNode) IN es[Len(es)].at = last.at
        /\ expected_index = last.cursor
        /\ SameNumbering # {}
        /\ OrphanTitleMatch(TitleOnly(last.full_text),
               StripNumbering(expected_sequence[Min(SameNumbering) + 1].title_normalized))

\* an orphan whose numbering comes from a rule and whose entry lies before
\* the cursor
C19_OrphanBehindCursor ==
    /\ last.kind = "heading" /\ last.path = "orphan"
    /\ last.numbering # last.parsed
    /\ last.cursor > 0
    /\ \A j \in SameNumbering : j < last.cursor
    /\ expected_index = last.cursor
    /\ HasNode(NodeId(last.numbering))

\* C20: the map a confirmed heading is filed in follows the shape of its
\* numbering: section 0 makes it a chapter (key in chapter_elements);
\* otherwise no subsection makes it a section, and a subsection makes it a
\* subsection.  No key of section_elements or subsection_elements has
\* section number 0.
C20_KindFollowsShape ==
    /\ last.kind = "heading" =>
           /\ IF last.key[2] = 0
              THEN /\ last.key[1] \in DOMAIN chapter_elements
                   /\ LET es == chapter_elements[last.key[1]]
                      IN  es # <<>> /\ es[Len(es)].at = last.at
              ELSE IF last.key[3] = None
              THEN /\ <<last.key[1], last.key[2]>> \in DOMAIN section_elements
                   /\ LET es == section_elements[<<last.key[1], last.key[2]>>]
                      IN  es # <<>> /\ es[Len(es)].at = last.at
              ELSE /\ last.key \in DOMAIN subsection_elements
                   /\ LET es == subsection_elements[last.key]
                      IN  es # <<>> /\ es[Len(es)].at = last.at
           /\ Occurrences(last.at, chapter_elements, section_elements,
                          subsection_elements) = 1
    /\ \A k \in DOMAIN section_elements : k[2] # 0
    /\ \A k \in DOMAIN subsection_elements : k[2] # 0
    /\ \A c \in DOMAIN chapters : 0 \notin DOMAIN chapters[c]

\* a heading with section 0 and a subsection number was confirmed, after a
\* subsection of the same chapter: it is filed as a chapter
C20_SectionZeroWithSubsection ==
    /\ last.kind = "heading"
    /\ last.key[2] = 0 /\ last.key[3] # None
    /\ last.key[1] \in DOMAIN chapter_elements
    /\ chapter_elements[last.key[1]] = <<[type |-> "paragraph", at |-> last.at]>>
    /\ subsection_elements # <<>>
    /\ Pointers = <<last.key[1], None, None>>

(***************************************************************************)
(* Properties of the TOC extraction and of the start of the body.          *)
(***************************************************************************)
\* a non-empty line without leader dots that does not start like a numbering
QuietLine(text) ==
    text # <<>> /\ ~Contains(ThreeDots, text) /\ ~StartsNumbering(text)

\* paragraph i (from 1) comes right after n quiet lines in a row, themselves
\* after a line with leader dots
AfterQuietRun(ps, i, n) ==
    /\ i - n >= 2
    /\ \A j \in (i - n)..(i - 1) : QuietLine(Strip(ps[j]))
    /\ \E j \in 1..(i - n - 1) : HasLeaders(Strip(ps[j]))

\* the line of paragraph i was collected as an entry of the TOC
CollectedAt(ps, i) ==
    \E e \in DOMAIN expected_sequence :
        expected_sequence[e].title = normalize_toc_text(Strip(ps[i]))

\* C21: TOC mode ends after 50 non-empty lines in a row that have neither
\* leader dots nor a numbering: a numbered line that comes as the 51st line
\* after such a run is not collected as an entry of the TOC.
C21_TocModeEndsAfterGap ==
    pc # "toc" =>
        \A i \in 1..Len(ParagraphTexts(body)) :
            (AfterQuietRun(ParagraphTexts(body), i, 50)
             /\ StartsNumbering(Strip(ParagraphTexts(body)[i])))
                => ~CollectedAt(ParagraphTexts(body), i)

(***************************************************************************)
(* Properties of the lookahead of extract_number_and_title.                *)
(***************************************************************************)
\* the n paragraphs after the one of index k (from 0), each after a blank
RECURSIVE Following(_, _, _)
Following(ps, k, n) ==
    IF n = 0 THEN <<>>
    ELSE Following(ps, k, n - 1) \o <<" ">> \o Strip(ps[k + 1 + n])

EndsWith(t, s) == Len(s) <= Len(t) /\ SubSeq(t, Len(t) - Len(s) + 1, Len(t)) = s

\* full_text is made of the text of the source and of at most 5 of the
\* paragraphs that follow it
PeekWithin(source, full_text) ==
    \E n \in 0..5 :
        /\ n > 0 => /\ source.type = "paragraph"
                    /\ source.index + 1 + n <= Len(ParagraphTexts(body))
        /\ EndsWith(full_text, Following(ParagraphTexts(body), source.index, n))
        /\ Len(full_text)
               <= Len(source.text)
                  + Len(Following(ParagraphTexts(body), source.index, n))

\* C22: the lookahead is a peek.  Every turn of the loop takes the element
\* at the stream position and moves the position by one, whatever the number
\* of continuation lines read, so that these lines are taken afterwards, each
\* once and in order; the stream itself is unchanged; the text of a candidate
\* holds at most the 5 paragraphs after its own; the cursor moves as the
\* alignment says (by one on an exact match, within the window on a
\* relocation, not at all otherwise).
C22_LookaheadIsPeek ==
    [][(pc = "run" /\ pos <= Len(Stream)) =>
          /\ last'.at = pos
          /\ pc' = "run" => pos' = pos + 1
          /\ Stream' = Stream
          /\ last'.kind # "content" => PeekWithin(Stream[pos], last'.full_text)
          /\ \/ last'.kind # "content" /\ last'.path = "fuzzy"
             \/ expected_index' =
                    IF last'.kind # "content" /\ last'.path = "exact"
                    THEN expected_index + 1 ELSE expected_index
          /\ expected_index' \in expected_index..(expected_index + FuzzyWindow)
      ]_vars

\* a heading was confirmed with five continuation lines in its text and a
\* sixth plain line after them, and all six were then taken as content of
\* its section
C22_PeekedLinesTakenLater ==
    /\ pc = "done"
    /\ <<1, 1>> \in DOMAIN section_elements
    /\ section_elements[<<1, 1>>]
           = [i \in 1..7 |-> [type |-> "paragraph", at |-> i]]
    /\ Peeked(ParagraphTexts(body), 1, 1) = 5

\* the text of the line alone carries a title after its numbering
CarriesTitle(t) ==
    With(extract_number_and_title(t, TRUE, <<>>, 0), LAMBDA alone :
    With(NumberingAt(alone.full_text, 1), LAMBDA m :
        /\ alone.ok
        /\ Strip(From(alone.full_text,
                      (IF m.n = 3 THEN m.end ELSE m.end2) + 1)) # <<>>))

\* C23: lookahead lines are appended only to a bare numbering: when the line
\* of a candidate carries a title, the text of the candidate, which the
\* title tests use, is that line alone.
C23_TitledLineStandsAlone ==
    (/\ last.kind \notin {"none", "content"}
     /\ Stream[last.at].type = "paragraph"
     /\ CarriesTitle(Stream[last.at].text))
        => last.full_text
               = extract_number_and_title(Stream[last.at].text, TRUE, <<>>, 0).full_text

(***************************************************************************)
(* Properties of the title tests.                                          *)
(***************************************************************************)
\* the candidate taken last went through the orphan validation
Validated ==
    last.kind \in {"heading", "rejected"} /\ last.path \in {"orphan", "reject"}

\* the orphan test of the title of the candidate taken last against entry j
\* (from 0)
OrphanPasses(j) ==
    OrphanTitleMatch(TitleOnly(last.full_text),
                     StripNumbering(expected_sequence[j + 1].title_normalized))

\* C24: the orphan validation tests one entry, the first of the expected
\* sequence that carries the numbering of the candidate: the candidate is
\* confirmed when the title of that entry passes and rejected when it fails,
\* whatever the titles of the later entries with the same numbering.
C24_FirstEntryDecides ==
    Validated =>
        (last.path = "orphan"
            <=> (SameNumbering # {} /\ OrphanPasses(Min(SameNumbering))))

\* a candidate rejected on the title of the first entry with its numbering,
\* while a later entry with the same numbering has a title that passes
C24_RejectedDespiteLaterEntry ==
    /\ Validated
    /\ last.path = "reject"
    /\ \E j \in SameNumbering : j > Min(SameNumbering) /\ OrphanPasses(j)

\* the title of entry j (from 0) without its numbering
EntryTitleOnly(j) == StripNumbering(expected_sequence[j + 1].title_normalized)

\* the candidate taken last went through the title tests
TitleTested ==
    last.kind \in {"heading", "rejected"} /\ last.path \in {"fuzzy", "orphan", "reject"}

\* the entries (from 0) the fuzzy search looked at for the candidate taken last
Window ==
    last.cursor..((IF last.cursor + 5 < Len(expected_sequence)
                   THEN last.cursor + 5 ELSE Len(expected_sequence)) - 1)

\* C25: the title tests ask for more than 3 characters of the title of the
\* candidate only.  A candidate whose title has 3 characters or fewer passes
\* neither test; a candidate with a longer title is relocated onto an entry
\* of the window whose title is short or empty and contained in its own, and
\* passes the orphan validation against such an entry.
C25_LengthOfCandidateOnly ==
    TitleTested =>
        LET t == TitleOnly(last.full_text)
            short(j) == /\ Len(EntryTitleOnly(j)) <= 3
                        /\ Contains(EntryTitleOnly(j), t)
        IN  /\ Len(t) <= 3 => last.path = "reject"
            /\ (Len(t) > 3 /\ \E j \in Window : short(j)) => last.path = "fuzzy"
            /\ (/\ Len(t) > 3
                /\ last.path # "fuzzy"
                /\ SameNumbering # {}
                /\ short(Min(SameNumbering))) => last.path = "orphan"

\* a relocation onto an entry whose title, without its numbering, has 3
\* characters or fewer
C25_RelocatedOntoShortTitle ==
    /\ TitleTested
    /\ last.path = "fuzzy"
    /\ Len(EntryTitleOnly(expected_index - 1)) <= 3

(***************************************************************************)
(* Properties of the node structure.                                       *)
(***************************************************************************)
\* the hierarchy ch and the three element maps hold the same nodes, each with
\* its chapter and its section
Closed(ch, ce, se, sse) ==
    /\ DOMAIN ce = DOMAIN ch
    /\ \A k \in DOMAIN se :
           /\ k[1] \in DOMAIN ch /\ k[1] \in DOMAIN ce
           /\ k[2] \in DOMAIN ch[k[1]]
    /\ \A k \in DOMAIN sse :
           /\ k[1] \in DOMAIN ch /\ k[1] \in DOMAIN ce
           /\ <<k[1], k[2]>> \in DOMAIN se
           /\ k[2] \in DOMAIN ch[k[1]]
           /\ k[3] \in ch[k[1]][k[2]]
    /\ \A c \in DOMAIN ch : \A sec \in DOMAIN ch[c] :
           /\ <<c, sec>> \in DOMAIN se
           /\ \A sub \in ch[c][sec] : <<c, sec, sub>> \in DOMAIN sse

\* C26: the structure is closed under ancestors before and after every step:
\* with a subsection (c, s, k) there are the section (c, s) and the chapter c,
\* with a section (c, s) the chapter c, in chapters and in the element maps.
\* A confirmed section or subsection heading makes the missing chapter and
\* section nodes, with an empty list.
C26_ClosedUnderAncestors ==
    [][/\ Closed(chapters, chapter_elements, section_elements, subsection_elements)
       /\ Closed(chapters', chapter_elements', section_elements',
                 subsection_elements')
       /\ ConfirmStep =>
              LET id == NodeId(last'.key)
              IN  /\ (Len(id) >= 2 /\ id[1] \notin DOMAIN chapter_elements)
                         => chapter_elements'[id[1]] = <<>>
                  /\ (Len(id) = 3 /\ <<id[1], id[2]>> \notin DOMAIN section_elements)
                         => section_elements'[<<id[1], id[2]>>] = <<>>]_vars

\* the first heading confirmed is a subsection heading: its section and its
\* chapter exist, with nothing in their lists
C26_SubsectionFirst ==
    /\ last.kind = "heading"
    /\ DOMAIN subsection_elements = {<<1, 1, 1>>}
    /\ DOMAIN section_elements = {<<1, 1>>} /\ section_elements[<<1, 1>>] = <<>>
    /\ DOMAIN chapter_elements = {1} /\ chapter_elements[1] = <<>>
    /\ chapters = Put(<<>>, 1, Put(<<>>, 1, {1}))

\* C30: when the chapter pointer is set, the node the pointers name exists:
\* the chapter in chapter_elements, with a section pointer the section in
\* section_elements, with a subsection pointer the subsection in
\* subsection_elements.  An element without numbering taken while a chapter
\* is open is therefore never dropped: it is the last of the list of that
\* node.
C30_OpenNodeExists ==
    current_chapter # None =>
        /\ current_chapter \in DOMAIN chapter_elements
        /\ current_section # None =>
               <<current_chapter, current_section>> \in DOMAIN section_elements
        /\ current_subsection # None =>
               /\ current_section # None
               /\ <<current_chapter, current_section, current_subsection>>
                      \in DOMAIN subsection_elements
        /\ HasNode(OpenNode)
        /\ last.kind = "content" =>
               LET es == ElementsOf(OpenNode)
               IN  es # <<>> /\ es[Len(es)].at = last.at

\* a table taken while a subsection is open is the last element of the
\* subsection
C30_TableKept ==
    /\ current_subsection # None
    /\ last.kind = "content"
    /\ LET es == ElementsOf(OpenNode)
       IN  es # <<>> /\ es[Len(es)] = [type |-> "table", at |-> last.at]

(***************************************************************************)
(* Properties of the start of the body.                                    *)
(***************************************************************************)
\* the indices (from 0) of the non-empty paragraphs with leader dots
Leaders(ps) ==
    {i \in 0..(Len(ps) - 1) :
        Strip(ps[i + 1]) # <<>> /\ Contains(LeaderDots, Strip(ps[i + 1]))}

\* the number of non-empty paragraphs between the paragraph j of ls, the
\* paragraphs with leader dots, and the next one of ls
QuietAfter(ps, ls, j) ==
    With(Min({i \in ls : i > j} \cup {Len(ps)}), LAMBDA next :
        Cardinality({k \in (j + 1)..(next - 1) : Strip(ps[k + 1]) # <<>>}))

\* the last paragraph with leader dots seen before more than 50 non-empty
\* paragraphs in a row without leader dots; 0 without any
LastTocLine(ps) ==
    With(Leaders(ps), LAMBDA ls :
    With({j \in ls : QuietAfter(ps, ls, j) > 50}, LAMBDA gaps :
        IF gaps # {} THEN Min(gaps) ELSE IF ls = {} THEN 0 ELSE Max(ls)))

\* the stream positions of the elements that the nodes hold
Placed ==
    UNION ({{chapter_elements[c][i].at : i \in DOMAIN chapter_elements[c]} :
               c \in DOMAIN chapter_elements}
           \cup {{section_elements[k][i].at : i \in DOMAIN section_elements[k]} :
                    k \in DOMAIN section_elements}
           \cup {{subsection_elements[k][i].at : i \in DOMAIN subsection_elements[k]} :
                    k \in DOMAIN subsection_elements})

\* the element at position p of the stream st is no paragraph of the TOC
AfterToc(st, p) ==
    /\ p \in 1..Len(st)
    /\ st[p].type = "paragraph" => st[p].index > toc_end_index

\* C28: the parse of the body starts after the TOC.  toc_end_index is the
\* index of the last paragraph with leader dots seen before more than 50
\* non-empty paragraphs in a row without them, 0 when there is none.  The
\* paragraphs of the stream are those of a larger index that have a text: no
\* paragraph of index <= toc_end_index is taken as a candidate or stored in a
\* node, and without leader dots paragraph 0 alone is left out.  At the
\* return every element of the stream has been taken.
C28_BodyStartsAfterToc ==
    pc # "toc" =>
        With(ParagraphTexts(body), LAMBDA ps :
        With(Stream, LAMBDA st :
            /\ toc_end_index = LastTocLine(ps)
            /\ Leaders(ps) = {} => toc_end_index = 0
            /\ {st[i].index : i \in {x \in 1..Len(st) : st[x].type = "paragraph"}}
                   = {k \in (toc_end_index + 1)..(Len(ps) - 1) : Strip(ps[k + 1]) # <<>>}
            /\ last.kind # "none" => AfterToc(st, last.at)
            /\ \A p \in Placed : AfterToc(st, p)
            /\ pc = "done" => pos = Len(st) + 1))

\* the TOC ends at a line that comes after 50 plain lines, and the heading
\* and the plain line after it are in the chapter
C28_TocEndsAfterRun ==
    /\ pc = "done"
    /\ toc_end_index = 51
    /\ Len(ParagraphTexts(body)) = 54
    /\ chapter_elements = Put(<<>>, 1, <<[type |-> "paragraph", at |-> 1],
                                         [type |-> "paragraph", at |-> 2]>>)

(***************************************************************************)
(* Properties of split_into_sections.                                      *)
(***************************************************************************)
\* the "elements" lists of the sections i.. of ss, one after the other
RECURSIVE ElementsFromSection(_, _)
ElementsFromSection(ss, i) ==
    IF i > Len(ss) THEN <<>> ELSE ss[i].elements \o ElementsFromSection(ss, i + 1)

\* C29: split_into_sections partitions the chapter: the "elements" lists of
\* the sections returned, one after the other, are the list it was given
\* (each element in one section, in the order of the list), and no section
\* returned has an empty list.  During the loop the sections saved and the
\* open section hold the elements taken so far.
C29_SplitPartitions ==
    /\ pc = "split" =>
           ElementsFromSection(split.sections, 1) \o split.current_section.elements
               = SubSeq(split.chapter_elements, 1, split.next - 1)
    /\ pc = "returned" =>
           ElementsFromSection(split.sections, 1) = split.chapter_elements
    /\ pc \in {"split", "returned"} =>
           \A i \in DOMAIN split.sections : split.sections[i].elements # <<>>

\* a chapter that opens with a section heading, so that the section N.0 is
\* left out, split into two sections of two elements each
C29_TwoSectionsNoIntro ==
    /\ pc = "returned"
    /\ Len(split.chapter_elements) = 4
    /\ Len(split.sections) = 2
    /\ split.sections[1].number = <<"1", ".", "1">>
    /\ Len(split.sections[1].elements) = 2
    /\ split.sections[2].elements[2].type = "table"

(***************************************************************************)
(* Properties of the section files.                                        *)
(***************************************************************************)
\* the ids of the section files written
WrittenIds == {written[i].id : i \in DOMAIN written}

\* C27: once build_book_json has written the section files, the target of
\* every "previous" and of every "next" link of a file written is the id of
\* a file written.
C27_LinksToWrittenFiles ==
    pc = "written" =>
        \A i \in DOMAIN written :
            \A l \in DOMAIN written[i].links :
                written[i].links[l].target \in WrittenIds

====
